---------------------------- MODULE Spec2Model ----------------------------
(***************************************************************************)
(* Model of the rate-analysis engine of src/app.py (1365 assessment-rate   *)
(* analyzer): find_hot_zone, find_blue_ocean_v3, analyze_gongo and         *)
(* process_analysis.                                                       *)
(*                                                                         *)
(* Numbers.  The program computes its rates, scores and bin edges in       *)
(* binary floating point (Python floats and numpy float64).  The model     *)
(* computes them in the same arithmetic, bit for bit: every sum, product,  *)
(* quotient and rounding below is the IEEE 754 operation the code runs.    *)
(* Counts and indices are integers.                                        *)
(***************************************************************************)
EXTENDS Integers, Sequences, FiniteSets, TLC

(***************************************************************************)
(* Values.  Python evaluates an expression once and binds its value to a   *)
(* name or a parameter.  The model binds a name to a value by letting it   *)
(* range over the set of that one value:                                   *)
(*     Only({body : name \in {value}})                                     *)
(* is body with name bound to the value.  An operator whose parameters are *)
(* bound this way takes them as p0 and binds p.                            *)
(***************************************************************************)
Only(S) == CHOOSE v \in S : TRUE

(***************************************************************************)
(* IEEE 754 binary64 arithmetic, as the program's floats compute.          *)
(*                                                                         *)
(* A finite double is the record [neg, exp, hi, lo] with the value         *)
(* (-1)^neg * (hi * 2^27 + lo) * 2^exp: the 53-bit significand is held in  *)
(* two digits of base 2^27, 2^25 <= hi < 2^26, 0 <= lo < 2^27.  Zero has   *)
(* hi = lo = 0 and exp = 0, with its sign.  Results are rounded to         *)
(* nearest, ties to even.  Infinities, NaN and subnormal numbers are not   *)
(* reached by the amounts and rates of the model.                          *)
(*                                                                         *)
(* A natural number of any size is a sequence of digits of base 2^27, the  *)
(* least significant first.                                                *)
(***************************************************************************)

\* the base of the digits
W == 2^27

\* number of bits of n, 0 <= n < 2^31
RECURSIVE BitLen(_)
BitLen(n) ==
    IF n = 0 THEN 0
    ELSE IF n >= 65536 THEN 16 + BitLen(n \div 65536)
    ELSE IF n >= 256 THEN 8 + BitLen(n \div 256)
    ELSE IF n >= 16 THEN 4 + BitLen(n \div 16)
    ELSE 1 + BitLen(n \div 2)

\* a * b for 0 <= a, b < 2^27 as the digits <<low, high>>, by halves of 14
\* and 13 bits (no intermediate value reaches 2^31)
MulWide(a, b) ==
    LET a1 == a \div 16384
        a0 == a % 16384
        b1 == b \div 16384
        b0 == b % 16384
        cross == a1 * b0 + a0 * b1
        low == a0 * b0 + (cross % 8192) * 16384
    IN  <<low % W, a1 * b1 * 2 + cross \div 8192 + low \div W>>

\* the digit i of a natural number, 0 beyond its length
Digit(n, i) == IF i >= 1 /\ i <= Len(n) THEN n[i] ELSE 0

\* n without its leading zero digits
RECURSIVE BigTrim(_)
BigTrim(n) ==
    IF n = <<>> \/ n[Len(n)] # 0 THEN n ELSE BigTrim(SubSeq(n, 1, Len(n) - 1))

\* carries propagated: cols[i] < 2^30 are sums of digits, the result has one
\* digit more
RECURSIVE BigCarry(_, _)
BigCarry(cols, carry) ==
    IF cols = <<>> THEN <<carry>>
    ELSE LET t == Head(cols) + carry
         IN  <<t % W>> \o BigCarry(Tail(cols), t \div W)

\* a + b
BigAdd(a, b) ==
    LET n == IF Len(a) > Len(b) THEN Len(a) ELSE Len(b)
    IN  BigTrim(BigCarry([i \in 1..n |-> Digit(a, i) + Digit(b, i)], 0))

\* a - b for a >= b
RECURSIVE BigBorrow(_, _, _, _)
BigBorrow(a, b, i, borrow) ==
    IF i > Len(a) THEN <<>>
    ELSE LET t == a[i] - Digit(b, i) - borrow
         IN  IF t < 0 THEN <<t + W>> \o BigBorrow(a, b, i + 1, 1)
             ELSE <<t>> \o BigBorrow(a, b, i + 1, 0)

BigSub(a, b) == BigTrim(BigBorrow(a, b, 1, 0))

\* a < b, for numbers without leading zero digits
RECURSIVE BigLessAt(_, _, _)
BigLessAt(a, b, i) ==
    IF i = 0 THEN FALSE
    ELSE IF a[i] # b[i] THEN a[i] < b[i]
    ELSE BigLessAt(a, b, i - 1)

BigLess(a, b) ==
    IF Len(a) # Len(b) THEN Len(a) < Len(b) ELSE BigLessAt(a, b, Len(a))

\* a * b: column k sums the products of the digits i, j with i + j = k + 1
BigMul(a, b) ==
    IF a = <<>> \/ b = <<>> THEN <<>>
    ELSE
    LET prod == [i \in 1..Len(a) |-> [j \in 1..Len(b) |-> MulWide(a[i], b[j])]]
        \* the low halves of column k and the high halves of column k - 1
        RECURSIVE Col(_, _)
        Col(k, i) ==
            IF i > Len(a) THEN 0
            ELSE (IF k + 1 - i >= 1 /\ k + 1 - i <= Len(b) THEN prod[i][k + 1 - i][1] ELSE 0)
                 + (IF k - i >= 1 /\ k - i <= Len(b) THEN prod[i][k - i][2] ELSE 0)
                 + Col(k, i + 1)
    IN  BigTrim(BigCarry([k \in 1..(Len(a) + Len(b)) |-> Col(k, 1)], 0))

\* number of bits of a number without leading zero digits
BigBitLen(n) == IF n = <<>> THEN 0 ELSE 27 * (Len(n) - 1) + BitLen(n[Len(n)])

\* n * 2^s
BigShl(n, s) ==
    IF n = <<>> THEN <<>>
    ELSE
    LET k == s \div 27
        j == s % 27
        up == 2^j
        down == 2^(27 - j)
    IN  BigTrim([i \in 1..(Len(n) + k + 1) |->
                    IF i <= k THEN 0
                    ELSE (Digit(n, i - k) % down) * up + Digit(n, i - k - 1) \div down])

\* n \div 2^s
BigShr(n, s) ==
    LET k == s \div 27
        j == s % 27
        down == 2^j
        up == 2^(27 - j)
    IN  IF k >= Len(n) THEN <<>>
        ELSE BigTrim([i \in 1..(Len(n) - k) |->
                        Digit(n, i + k) \div down + (Digit(n, i + k + 1) % down) * up])

\* the bit s of n (bit 0 is the lowest)
BigBit(n, s) == (Digit(n, s \div 27 + 1) \div 2^(s % 27)) % 2

\* n % 2^s # 0
BigLowBits(n, s) ==
    \/ \E i \in 1..Len(n) : i <= s \div 27 /\ n[i] # 0
    \/ Digit(n, s \div 27 + 1) % 2^(s % 27) # 0

\* the natural number n < 2^31 as a number in digits
BigOf(n) == BigTrim(<<n % W, n \div W>>)

\* n \div 2^s rounded to nearest, ties to even; sticky tells that the exact
\* number is a little above n
BigShrRound(n, s, sticky) ==
    IF s = 0 THEN n
    ELSE Only({
        IF BigBit(n, s - 1) = 1 /\ (sticky \/ BigLowBits(n, s - 1) \/ BigBit(q, 0) = 1)
        THEN BigAdd(q, <<1>>)
        ELSE q
        : q \in {BigShr(n, s)}})

\* zero, with its sign
FZero(neg) == [neg |-> neg, exp |-> 0, hi |-> 0, lo |-> 0]

\* the double nearest to (-1)^neg * (n + t) * 2^exp, where 0 < t < 1 if
\* sticky and t = 0 if not (n has 55 bits or more when sticky): the number
\* is shifted to 53 bits, up exactly or down with rounding, and a rounding
\* that carries into a 54th bit gives the next power of two
RoundPack(neg, n0, exp, sticky) ==
    Only({
        IF len = 0 THEN FZero(neg)
        ELSE Only({
            IF Len(m) = 2 /\ m[2] >= 2^26
            THEN [neg |-> neg, exp |-> exp + (len - 53) + 1, hi |-> 2^25, lo |-> 0]
            ELSE [neg |-> neg, exp |-> exp + (len - 53), hi |-> m[2], lo |-> m[1]]
            : m \in {IF len <= 53 THEN BigShl(n, 53 - len)
                     ELSE BigShrRound(n, len - 53, sticky)}})
        : n \in {n0}, len \in {BigBitLen(n0)}})

\* float(n) for an integer n, |n| < 2^31
FromInt(n) == RoundPack(n < 0, BigOf(IF n < 0 THEN -n ELSE n), 0, FALSE)

\* the significand of a double as a number in digits
Sig(x) == BigTrim(<<x.lo, x.hi>>)

FIsZero(x) == x.hi = 0

\* -x and abs(x)
FNeg(x0) ==
    Only({
        [x EXCEPT !.neg = ~x.neg]
        : x \in {x0}})

FAbs(x) == [x EXCEPT !.neg = FALSE]

\* |x| < |y|
FMagLess(x, y) ==
    IF FIsZero(y) THEN FALSE
    ELSE IF FIsZero(x) THEN TRUE
    ELSE IF x.exp # y.exp THEN x.exp < y.exp
    ELSE IF x.hi # y.hi THEN x.hi < y.hi
    ELSE x.lo < y.lo

\* x == y, x < y, x <= y (0.0 == -0.0)
FEq(x0, y0) ==
    Only({
        IF FIsZero(x) THEN FIsZero(y)
        ELSE x = y
        : x \in {x0}, y \in {y0}})

FLess(x0, y0) ==
    Only({
        IF FIsZero(x) /\ FIsZero(y) THEN FALSE
        ELSE IF FIsZero(x) THEN ~y.neg
        ELSE IF FIsZero(y) THEN x.neg
        ELSE IF x.neg # y.neg THEN x.neg
        ELSE IF x.neg THEN FMagLess(y, x)
        ELSE FMagLess(x, y)
        : x \in {x0}, y \in {y0}})

FLeq(x, y) == ~FLess(y, x)

\* x * y
FMul(x0, y0) ==
    Only({
        IF FIsZero(x) \/ FIsZero(y) THEN FZero(x.neg # y.neg)
        ELSE RoundPack(x.neg # y.neg, BigMul(<<x.lo, x.hi>>, <<y.lo, y.hi>>),
                       x.exp + y.exp, FALSE)
        : x \in {x0}, y \in {y0}})

\* n steps of the long division by <<dl, dh>>: the remainder <<rl, rh>> is
\* doubled and the divisor taken off it when it fits; q collects the bits
RECURSIVE DivBits(_, _, _, _, _, _)
DivBits(rh, rl, dh, dl, n, q) ==
    IF n = 0 THEN [q |-> q, rh |-> rh, rl |-> rl]
    ELSE LET h2 == 2 * rh + (2 * rl) \div W
             l2 == (2 * rl) % W
         IN  IF h2 > dh \/ (h2 = dh /\ l2 >= dl)
             THEN IF l2 >= dl
                  THEN DivBits(h2 - dh, l2 - dl, dh, dl, n - 1, 2 * q + 1)
                  ELSE DivBits(h2 - dh - 1, l2 - dl + W, dh, dl, n - 1, 2 * q + 1)
             ELSE DivBits(h2, l2, dh, dl, n - 1, 2 * q)

\* the digits of base 2^9 of a digit of base 2^27, the highest first
Ninths(d) == <<d \div 262144, (d \div 512) % 512, d % 512>>

\* short division by d < 2^21 of the number whose digits of base 2^9 are
\* given, the highest first (the remainder so far is rem < d): the quotient's
\* digits of base 2^9, the highest first, and then the last remainder
RECURSIVE ShortDiv(_, _, _)
ShortDiv(digits, d, rem) ==
    IF digits = <<>> THEN <<rem>>
    ELSE LET t == rem * 512 + Head(digits)
         IN  <<t \div d>> \o ShortDiv(Tail(digits), d, t % d)

\* x / y for y # 0 when the significand of y has 21 bits at most (an integer
\* below 2^21, or such an integer times a power of two): the quotient of the
\* significand of x, with 27 more bits, by those 21 bits, its exponent, and
\* whether a remainder is left
FDivShort(x, y) ==
    Only({
        [n |-> BigTrim(<<(q[7] * 512 + q[8]) * 512 + q[9],
                         (q[4] * 512 + q[5]) * 512 + q[6],
                         (q[1] * 512 + q[2]) * 512 + q[3]>>),
         exp |-> x.exp - y.exp - 59,
         sticky |-> q[10] # 0]
        : q \in {ShortDiv(Ninths(x.hi) \o Ninths(x.lo) \o <<0, 0, 0>>, y.hi \div 32, 0)}})

\* x / y for y # 0 in general: 56 quotient bits of the significands (first
\* 28, then 28 more: top.q * 2^28 + low.q in digits), the exponent, and
\* whether a remainder is left
FDivLong(x, y) ==
    Only({
        Only({
            Only({
                [n |-> BigTrim(<<low.q % W,
                                 (2 * top.q + low.q \div W) % W,
                                 (2 * top.q + low.q \div W) \div W>>),
                 exp |-> x.exp - y.exp - 55,
                 sticky |-> low.rh # 0 \/ low.rl # 0]
                : low \in {DivBits(top.rh, top.rl, y.hi, y.lo, 28, 0)}})
            : top \in {DivBits(r0[2], r0[1], y.hi, y.lo, 27, IF ge THEN 1 ELSE 0)}})
        : ge \in {x.hi > y.hi \/ (x.hi = y.hi /\ x.lo >= y.lo)},
          r0 \in {IF ~(x.hi > y.hi \/ (x.hi = y.hi /\ x.lo >= y.lo)) THEN <<x.lo, x.hi>>
                 ELSE IF x.lo >= y.lo THEN <<x.lo - y.lo, x.hi - y.hi>>
                 ELSE <<x.lo - y.lo + W, x.hi - y.hi - 1>>}})

\* x / y for y # 0
FDiv(x0, y0) ==
    Only({
        IF FIsZero(x) THEN FZero(x.neg # y.neg)
        ELSE Only({
            RoundPack(x.neg # y.neg, q.n, q.exp, q.sticky)
            : q \in {IF y.lo = 0 /\ y.hi % 32 = 0 THEN FDivShort(x, y)
                     ELSE FDivLong(x, y)}})
        : x \in {x0}, y \in {y0}})

\* x + y: the significand of the greater magnitude is shifted to the
\* exponent of the smaller, and the two are added or subtracted
FAdd(x0, y0) ==
    Only({
        IF FIsZero(x) THEN (IF FIsZero(y) THEN FZero(x.neg /\ y.neg) ELSE y)
        ELSE IF FIsZero(y) THEN x
        ELSE Only({
            IF big.exp - small.exp > 60 THEN big
            ELSE Only({
                IF big.neg # small.neg /\ a = b THEN FZero(FALSE)
                ELSE RoundPack(big.neg,
                               IF big.neg = small.neg THEN BigAdd(a, b) ELSE BigSub(a, b),
                               small.exp, FALSE)
                : a \in {BigShl(Sig(big), big.exp - small.exp)}, b \in {Sig(small)}})
            : big \in {IF FMagLess(x, y) THEN y ELSE x},
              small \in {IF FMagLess(x, y) THEN x ELSE y}})
        : x \in {x0}, y \in {y0}})

\* x - y
FSub(x0, y0) ==
    Only({
        FAdd(x, FNeg(y))
        : x \in {x0}, y \in {y0}})

\* the integer nearest to |x| * k, ties to even, for an integer 0 < k < 2^27
\* (the result is below 2^31)
RoundedTimes(x0, k) ==
    Only({
        IF FIsZero(x) THEN 0
        ELSE Only({
            Digit(m, 1) + W * Digit(m, 2)
            : m \in {BigShrRound(BigShl(BigMul(Sig(x), <<k>>), IF x.exp >= 0 THEN x.exp ELSE 0),
                                 IF x.exp >= 0 THEN 0 ELSE -x.exp, FALSE)}})
        : x \in {x0}})

\* 10 ** ndigits
Pow10(ndigits) == 10^ndigits

\* Python's round(x, ndigits) of a float: the decimal of ndigits places
\* nearest to the exact value of x, ties to even, read back as a double
PyRound(x0, ndigits) ==
    Only({
        [FDiv(FromInt(RoundedTimes(x, Pow10(ndigits))), FromInt(Pow10(ndigits)))
            EXCEPT !.neg = x.neg]
        : x \in {x0}})

\* np.rint(x): the integral double nearest to x, ties to even
Rint(x0) ==
    Only({
        IF x.exp >= 0 THEN x
        ELSE LET n == BigShrRound(Sig(x), -x.exp, FALSE)
             IN  RoundPack(x.neg, n, 0, FALSE)
        : x \in {x0}})

\* numpy's round(x, decimals): rint(x * 10**decimals) / 10**decimals
NpRound(x0, decimals) ==
    Only({
        FDiv(Rint(FMul(x, FromInt(Pow10(decimals)))), FromInt(Pow10(decimals)))
        : x \in {x0}})

\* math.ceil(x) as an integer, |x| < 2^31
FCeil(x0) ==
    Only({
        IF FIsZero(x) THEN 0
        ELSE Only({
            IF x.neg THEN -(Digit(whole, 1) + W * Digit(whole, 2))
            ELSE IF x.exp < 0 /\ BigLowBits(Sig(x), -x.exp)
            THEN Digit(whole, 1) + W * Digit(whole, 2) + 1
            ELSE Digit(whole, 1) + W * Digit(whole, 2)
            : whole \in {IF x.exp >= 0 THEN BigShl(Sig(x), x.exp) ELSE BigShr(Sig(x), -x.exp)}})
        : x \in {x0}})

(***************************************************************************)
(* Generic helpers (Python built-ins used by the code).                    *)
(***************************************************************************)

\* the float written n / d in decimal (d a power of ten), as float("...")
\* reads it: the double nearest to the quotient
Dec(n, d) == FDiv(FromInt(n), FromInt(d))

\* len(seq) elements of a sequence as a set of indices
Idx(s) == 1..Len(s)

\* min(...) / max(...) of a non-empty sequence of floats (the first of equal
\* elements)
RECURSIVE SeqMin(_)
SeqMin(s0) ==
    Only({
        IF Len(s) = 1 THEN s[1]
        ELSE LET m == SeqMin(SubSeq(s, 1, Len(s) - 1))
             IN  IF FLess(s[Len(s)], m) THEN s[Len(s)] ELSE m
        : s \in {s0}})

RECURSIVE SeqMax(_)
SeqMax(s0) ==
    Only({
        IF Len(s) = 1 THEN s[1]
        ELSE LET m == SeqMax(SubSeq(s, 1, Len(s) - 1))
             IN  IF FLess(m, s[Len(s)]) THEN s[Len(s)] ELSE m
        : s \in {s0}})

\* insertion of x into an ascending sequence, after the elements equal to it
RECURSIVE InsertSorted(_, _)
InsertSorted(s0, x0) ==
    Only({
        IF s = <<>> THEN <<x>>
        ELSE IF FLess(x, Head(s)) THEN <<x>> \o s
        ELSE <<Head(s)>> \o InsertSorted(Tail(s), x)
        : s \in {s0}, x \in {x0}})

\* sorted(list): ascending
RECURSIVE Sorted(_)
Sorted(s0) ==
    Only({
        IF s = <<>> THEN <<>>
        ELSE InsertSorted(Sorted(SubSeq(s, 1, Len(s) - 1)), s[Len(s)])
        : s \in {s0}})

\* sum(lo <= r <= hi for r in rates): number of entries in [lo, hi]
CountIn(rates0, lo0, hi0) ==
    Only({
        Cardinality({i \in Idx(rates) : FLeq(lo, rates[i]) /\ FLeq(rates[i], hi)})
        : rates \in {rates0}, lo \in {lo0}, hi \in {hi0}})

\* all sequences over S of length 0..n
SeqsUpTo(S, n) == UNION {[1..k -> S] : k \in 0..n}

(***************************************************************************)
(* find_hot_zone (src/app.py 258-276).                                     *)
(* A result is a record; some = FALSE stands for (None, None, count).      *)
(***************************************************************************)

\* (None, None, 0): the answer for an empty list
HZNone == [some |-> FALSE, start |-> FZero(FALSE), end |-> FZero(FALSE), count |-> 0]

\* the mutant of HZInitBest: the search starts from a best count of 1, so a
\* window has to hold two rates to be kept
HZInitBestOne == [some |-> FALSE, start |-> FZero(FALSE), end |-> FZero(FALSE), count |-> 1]

\* best_start, best_end, best_count = None, None, -1
HZInitBest == [some |-> FALSE, start |-> FZero(FALSE), end |-> FZero(FALSE), count |-> -1]

\* the mutant of HZBody: ties replace the window already kept (>= for >)
HZBodyLastTie(rates_sorted, start, best, window) ==
    LET end == FAdd(start, window)
        count == CountIn(rates_sorted, start, end)
    IN  IF count >= best.count
        THEN [some |-> TRUE, start |-> start, end |-> end, count |-> count]
        ELSE best

\* the mutant of HZBody: the window is half-open, [start, end)
HZBodyHalfOpen(rates_sorted, start, best, window) ==
    LET end == FAdd(start, window)
        count == Cardinality({i \in Idx(rates_sorted) :
                     FLeq(start, rates_sorted[i]) /\ FLess(rates_sorted[i], end)})
    IN  IF count > best.count
        THEN [some |-> TRUE, start |-> start, end |-> end, count |-> count]
        ELSE best

\* one pass of the while body, lines 269-273: the new best window
HZBody(rates_sorted, start, best, window) ==
    LET end == FAdd(start, window)
        count == CountIn(rates_sorted, start, end)
    IN  IF count > best.count
        THEN [some |-> TRUE, start |-> start, end |-> end, count |-> count]
        ELSE best

\* the while loop, lines 268-274, from a given start
RECURSIVE HZLoop(_, _, _, _, _, _)
HZLoop(rates_sorted0, max_r0, start0, best0, window0, step0) ==
    Only({
        IF FLeq(start, max_r)
        THEN HZLoop(rates_sorted, max_r, FAdd(start, step),
                    HZBody(rates_sorted, start, best, window), window, step)
        ELSE best
        : rates_sorted \in {rates_sorted0}, max_r \in {max_r0}, start \in {start0}, best \in {best0}, window \in {window0}, step \in {step0}})

\* find_hot_zone(actual_rates, window, step), for step > 0
find_hot_zone(actual_rates, window, step) ==
    IF actual_rates = <<>> THEN HZNone
    ELSE LET rates_sorted == Sorted(actual_rates)
         IN  HZLoop(rates_sorted, SeqMax(rates_sorted), SeqMin(rates_sorted),
                    HZInitBest, window, step)


(***************************************************************************)
(* find_blue_ocean_v3 (src/app.py 279-356).                                *)
(* Rates, bin edges, centers and scores are doubles; counts are integers.  *)
(***************************************************************************)

\* [r for r in rates if lo <= r <= hi]
RECURSIVE FilterIn(_, _, _)
FilterIn(rates0, lo0, hi0) ==
    Only({
        IF rates = <<>> THEN <<>>
        ELSE IF FLeq(lo, Head(rates)) /\ FLeq(Head(rates), hi)
             THEN <<Head(rates)>> \o FilterIn(Tail(rates), lo, hi)
             ELSE FilterIn(Tail(rates), lo, hi)
        : rates \in {rates0}, lo \in {lo0}, hi \in {hi0}})

\* np.arange(start, stop, step) of floats, step > 0: an array of
\* n = ceil((stop - start) / step) values; the first is start, the second
\* start + step, and value i (from 0) is start + i * delta with
\* delta = (start + step) - start.  The array is kept as n and the three
\* numbers its values are computed from; ArrayAt gives a value.
Arange(start0, stop, step0) ==
    Only({
        [n |-> FCeil(FDiv(FSub(stop, start), step)),
         start |-> start, second |-> second, delta |-> FSub(second, start)]
        : start \in {start0}, step \in {step0}, second \in {FAdd(start0, step0)}})

\* the array [first, last] of two values
ArrayOfTwo(first, last) ==
    [n |-> 2, start |-> first, second |-> last, delta |-> FSub(last, first)]

\* array[k - 1]: value k of the array, counted from 1
ArrayAt(array, k) ==
    IF k = 1 THEN array.start
    ELSE IF k = 2 THEN array.second
    ELSE FAdd(array.start, FMul(FromInt(k - 1), array.delta))

\* lines 303-305: the bin edges
BOBins(hot_start, hot_end, bin_width) ==
    Only({IF bins.n < 2 THEN ArrayOfTwo(hot_start, hot_end) ELSE bins
          : bins \in {Arange(hot_start, FAdd(hot_end, bin_width), bin_width)}})

\* the bin of np.histogram a value v with edges[1] <= v <= edges[n] falls in:
\* the last bin whose left edge is <= v (the edges ascend), looked for from
\* bin k on
RECURSIVE HistBinFrom(_, _, _)
HistBinFrom(v0, edges0, k0) ==
    Only({
        IF k > 1 /\ FLess(v, ArrayAt(edges, k)) THEN HistBinFrom(v, edges, k - 1)
        ELSE IF k < edges.n - 1 /\ FLeq(ArrayAt(edges, k + 1), v) THEN HistBinFrom(v, edges, k + 1)
        ELSE k
        : v \in {v0}, edges \in {edges0}, k \in {k0}})

\* the bin that (v - edges[1]) / delta points to, where the search starts
HistBinNear(v, edges) ==
    IF FIsZero(edges.delta) THEN 1
    ELSE Only({IF k < 1 THEN 1 ELSE IF k > edges.n - 1 THEN edges.n - 1 ELSE k
               : k \in {FCeil(FDiv(FSub(v, edges.start), edges.delta))}})

\* the bin of np.histogram(values, bins=edges) a value is counted in, 0 when
\* it is counted in none: bins are half-open, the last closed
HistBin(v0, edges0) ==
    Only({
        IF FLess(v, ArrayAt(edges, 1)) \/ FLess(ArrayAt(edges, edges.n), v) THEN 0
        ELSE HistBinFrom(v, edges, HistBinNear(v, edges))
        : v \in {v0}, edges \in {edges0}})

\* the bins of the values, value by value
HistBins(values0, edges0) ==
    Only({
        [k \in Idx(values) |-> HistBin(values[k], edges)] \o <<>>
        : values \in {values0}, edges \in {edges0}})

\* np.histogram(values, bins=edges)[0] at the bins of the set at, from the
\* bins of the values
Histogram(bin_of0, at0) ==
    Only({
        [i \in at |-> Cardinality({k \in Idx(bin_of) : bin_of[k] = i})] @@ <<>>
        : bin_of \in {bin_of0}, at \in {at0}})

\* np.histogram(values, bins=edges)[0].sum(): the number of values counted
\* in a bin
HistTotal(bin_of0) ==
    Only({
        Cardinality({k \in Idx(bin_of) : bin_of[k] # 0})
        : bin_of \in {bin_of0}})

\* the mutant of BOScore: the bidder count divides without the + 1 softening
\* (a bin without bidders keeps the full demand)
BOScoreNoSoftening(theo_c, bid_c, total, max_c) ==
    LET theo_norm_i == FDiv(FromInt(theo_c), FromInt(total))
        max_theo == FDiv(FromInt(max_c), FromInt(total))
        demand == FDiv(theo_norm_i, max_theo)
    IN  IF bid_c = 0 THEN demand
        ELSE FMul(demand, FDiv(FromInt(1), FromInt(bid_c)))

\* lines 318-319 and 334-336: score = demand * supply_inv of one bin, with
\* theo_norm[i] = theo_c / total and max_theo = max_c / total
BOScore(theo_c, bid_c, total, max_c) ==
    LET theo_norm_i == FDiv(FromInt(theo_c), FromInt(total))
        max_theo == FDiv(FromInt(max_c), FromInt(total))
        demand == FDiv(theo_norm_i, max_theo)
        supply_inv == FDiv(FromInt(1), FAdd(FromInt(bid_c), FromInt(1)))
    IN  FMul(demand, supply_inv)

\* rows = [], best_score = -1.0, best_range = None, best_center = None
BOLoopInit ==
    [rows |-> <<>>, best_score |-> FromInt(-1),
     range_some |-> FALSE, best_range |-> <<FZero(FALSE), FZero(FALSE)>>,
     center_some |-> FALSE, best_center |-> FZero(FALSE)]

\* lines 324-350: the body of the loop over the bins, for bin i
BOLoopBody(acc, i, bin_edges, theo_counts, bid_counts, total, max_c) ==
    IF theo_counts[i] = 0 THEN acc
    ELSE Only({
        LET start == bin_edges[i]
            end == bin_edges[i + 1]
            row == [center |-> center, score |-> score,
                    theo_count |-> theo_counts[i], bid_count |-> bid_counts[i]]
        IN  IF FLess(acc.best_score, score)
            THEN [rows |-> Append(acc.rows, row), best_score |-> score,
                  range_some |-> TRUE, best_range |-> <<start, end>>,
                  center_some |-> TRUE, best_center |-> center]
            ELSE [acc EXCEPT !.rows = Append(acc.rows, row)]
        : center \in {FDiv(FAdd(bin_edges[i], bin_edges[i + 1]), FromInt(2))},
          score \in {BOScore(theo_counts[i], bid_counts[i], total, max_c)}})

\* the elements of a finite set of integers in ascending order
RECURSIVE AscSeqOf(_)
AscSeqOf(S0) ==
    Only({
        IF S = {} THEN <<>>
        ELSE LET m == CHOOSE x \in S : \A y \in S : x <= y
             IN  <<m>> \o AscSeqOf(S \ {m})
        : S \in {S0}})

\* counts.max() of a histogram with a nonzero bin: the largest count among
\* the nonzero bins
HistMax(counts0, nonzero0) ==
    Only({
        LET S == {counts[nonzero[k]] : k \in Idx(nonzero)}
        IN  CHOOSE x \in S : \A y \in S : x >= y
        : counts \in {counts0}, nonzero \in {nonzero0}})

\* the bins the loop does not skip (line 331: continue when theo_c == 0), from
\* the bins of the theoretical rates
BOScoredBins(theo_bin_of0) ==
    Only({
        AscSeqOf({theo_bin_of[k] : k \in Idx(theo_bin_of)} \ {0})
        : theo_bin_of \in {theo_bin_of0}})

\* bin_edges[i] and bin_edges[i + 1] for the bins i the loop does not skip
BOEdgesOf(bins0, scored0) ==
    Only({
        [k \in {scored[j] : j \in Idx(scored)} \cup {scored[j] + 1 : j \in Idx(scored)} |->
            ArrayAt(bins, k)] @@ <<>>
        : bins \in {bins0}, scored \in {scored0}})

\* line 323: for i in range(len(bin_edges) - 1), over the bins still to do;
\* a skipped bin changes nothing, so the loop runs over the others
RECURSIVE BOLoop(_, _, _, _, _, _, _)
BOLoop(acc0, todo0, bin_edges0, theo_counts0, bid_counts0, total0, max_c0) ==
    Only({
        IF todo = <<>> THEN acc
        ELSE BOLoop(BOLoopBody(acc, Head(todo), bin_edges, theo_counts, bid_counts,
                               total, max_c),
                    Tail(todo), bin_edges, theo_counts, bid_counts, total, max_c)
        : acc \in {acc0}, todo \in {todo0}, bin_edges \in {bin_edges0}, theo_counts \in {theo_counts0}, bid_counts \in {bid_counts0}, total \in {total0}, max_c \in {max_c0}})

\* return None, None, None
BONone ==
    [df_some |-> FALSE, rows |-> <<>>,
     range_some |-> FALSE, best_range |-> <<FZero(FALSE), FZero(FALSE)>>,
     center_some |-> FALSE, best_center |-> FZero(FALSE)]

\* the mutant of find_blue_ocean_v3: the guard on an empty bidder list is
\* missing, so bins are scored with no bidder in the hot zone
find_blue_ocean_v3_NoBidCheck(theoretical_rates, bidder_rates, hs, he, bin_width) ==
    IF ~hs.some \/ ~he.some THEN BONone
    ELSE Only({
        IF Len(theo) = 0 THEN BONone
        ELSE Only({
            LET scored == BOScoredBins(theo_bin_of)
                at == {scored[j] : j \in Idx(scored)}
                theo_counts == Histogram(theo_bin_of, at)
                bid_counts == Histogram(bid_bin_of, at)
                total == HistTotal(theo_bin_of)
            IN  Only({[df_some |-> TRUE, rows |-> acc.rows,
                       range_some |-> acc.range_some, best_range |-> acc.best_range,
                       center_some |-> acc.center_some, best_center |-> acc.best_center]
                      : acc \in {BOLoop(BOLoopInit, scored, BOEdgesOf(bins, scored),
                                         theo_counts, bid_counts, total,
                                         HistMax(theo_counts, scored))}})
            : theo_bin_of \in {HistBins(theo, bins)}, bid_bin_of \in {HistBins(bids, bins)}})
        : theo \in {FilterIn(theoretical_rates, hs.v, he.v)},
          bids \in {FilterIn(bidder_rates, hs.v, he.v)},
          bins \in {BOBins(hs.v, he.v, bin_width)}})

\* find_blue_ocean_v3(theoretical_rates, bidder_rates, hot_start, hot_end,
\* bin_width), bin_width > 0; a bound is [some, v], some = FALSE standing for None.
\* theo and bids are the two filtered lists, bins the edges, theo_bin_of and
\* bid_bin_of the bins the rates are counted in.
\* The histograms and the edges are worked out for the bins with a
\* theoretical rate, the only ones the loop reads.
\* The rows are appended by ascending center, which is the order
\* sort_values("center") returns.
find_blue_ocean_v3(theoretical_rates, bidder_rates, hs, he, bin_width) ==
    IF ~hs.some \/ ~he.some THEN BONone
    ELSE Only({
        IF Len(theo) = 0 \/ Len(bids) = 0 THEN BONone
        ELSE Only({
            LET total == HistTotal(theo_bin_of)
                scored == BOScoredBins(theo_bin_of)
                at == {scored[j] : j \in Idx(scored)}
                theo_counts == Histogram(theo_bin_of, at)
                bid_counts == Histogram(bid_bin_of, at)
                max_c == HistMax(theo_counts, scored)
            IN  IF total = 0 THEN BONone
                ELSE IF max_c <= 0 THEN BONone
                ELSE Only({
                    IF acc.rows = <<>> THEN BONone
                    ELSE [df_some |-> TRUE, rows |-> acc.rows,
                          range_some |-> acc.range_some,
                          best_range |-> acc.best_range,
                          center_some |-> acc.center_some,
                          best_center |-> acc.best_center]
                    : acc \in {BOLoop(BOLoopInit, scored, BOEdgesOf(bins, scored),
                                       theo_counts, bid_counts, total, max_c)}})
            : theo_bin_of \in {HistBins(theo, bins)}, bid_bin_of \in {HistBins(bids, bins)}})
        : theo \in {FilterIn(theoretical_rates, hs.v, he.v)},
          bids \in {FilterIn(bidder_rates, hs.v, he.v)},
          bins \in {BOBins(hs.v, he.v, bin_width)}})
(***************************************************************************)
(* analyze_gongo (src/app.py 446-617): the pure parts.                     *)
(*                                                                         *)
(* The amounts of the responses are whole numbers, read as floats          *)
(* (astype(float), pd.to_numeric, float(...)); the rates computed from     *)
(* them are doubles.                                                       *)
(***************************************************************************)

\* An identifier text is held as its stretches between the "-" characters:
\* "g1" is <<"g1">> and "g1-01" is <<"g1", "01">>; the text of blanks only
\* is <<"">>.  The stretches of an identifier hold no blanks, so that their
\* strip() is the stretch itself.

\* lines 455-461: gongo_no, the text before the first "-" (the whole text
\* without one)
GongoNo(gongo_input_str) == gongo_input_str[1]

\* lines 455-461: gongo_ord, the text between the first "-" and the next,
\* "00" without a "-"
GongoOrd(gongo_input_str) ==
    IF Len(gongo_input_str) >= 2 THEN gongo_input_str[2] ELSE "00"

\* the officer name reported when the lookup gives nothing ('확인불가')
UnknownOfficer == "unknown"

\* lines 200-204: the first non-blank of exctvNm, chrgrNm, ntceChrgrNm
\* (fields is the triple of the stripped field values, "" for a missing one)
OfficerOfItem(fields) ==
    IF fields[1] # "" THEN fields[1]
    ELSE IF fields[2] # "" THEN fields[2]
    ELSE IF fields[3] # "" THEN fields[3]
    ELSE UnknownOfficer

\* line 486: SA_rate = bsisPlnprc / bssamt * 100 (bssamt > 0)
SA_rate(item) ==
    FMul(FDiv(FromInt(item.bsisPlnprc), FromInt(item.bssamt)), FromInt(100))

\* itertools.combinations(seq, k): the k-subsequences in lexicographic order
\* of the positions
RECURSIVE Combinations(_, _)
Combinations(seq0, k0) ==
    Only({
        IF k = 0 THEN <<<<>>>>
        ELSE IF Len(seq) < k THEN <<>>
        ELSE LET with == Combinations(Tail(seq), k - 1)
             IN  [i \in Idx(with) |-> <<Head(seq)>> \o with[i]]
                 \o Combinations(Tail(seq), k)
        : seq \in {seq0}, k \in {k0}})

\* np.add.reduce of a short array of floats: the elements are added one
\* after the other, from 0.0
RECURSIVE FSum(_)
FSum(c0) ==
    Only({
        IF c = <<>> THEN FZero(FALSE)
        ELSE FAdd(FSum(SubSeq(c, 1, Len(c) - 1)), c[Len(c)])
        : c \in {c0}})

\* np.mean(c): the sum divided by the number of elements
Mean(c) == FDiv(FSum(c), FromInt(Len(c)))

\* the mutant of TheoreticalRates: combinations of 3 estimates instead of 4
TheoreticalRates3(items1) ==
    IF Len(items1) >= 4
    THEN LET sa == [i \in Idx(items1) |-> SA_rate(items1[i])] \o <<>>
             combos == Combinations(sa, 3)
         IN  Sorted([i \in Idx(combos) |-> Mean(combos[i])])
    ELSE <<>>

\* lines 486-498: df_rates["rate"], the sorted means of the 4-combinations of
\* the self-rates; row i carries the sequence number i
TheoreticalRates(items1) ==
    IF Len(items1) >= 4
    THEN LET sa == [i \in Idx(items1) |-> SA_rate(items1[i])] \o <<>>
             combos == Combinations(sa, 4)
         IN  Sorted([i \in Idx(combos) |-> Mean(combos[i])])
    ELSE <<>>

\* lines 483-485: the base price, bssamt of the second estimate if there is one
BasePriceOf(items1) ==
    IF Len(items1) > 1 THEN FromInt(items1[2].bssamt) ELSE FromInt(items1[1].bssamt)

\* the mutant of BidRate: without the guard's fallback to 0 the amount itself
\* is reported when the threshold or the base price is unusable
BidRateNoSentinel(bidprcAmt, A_value, sucs_rate, base_price) ==
    IF FLess(FZero(FALSE), sucs_rate) /\ FLess(FZero(FALSE), base_price)
    THEN LET numerator == FAdd(FDiv(FMul(FSub(FromInt(bidprcAmt), A_value), FromInt(100)),
                                    sucs_rate), A_value)
         IN  FDiv(FMul(numerator, FromInt(100)), base_price)
    ELSE FromInt(bidprcAmt)

\* lines 563-567: numerator = ((B - A) * 100) / sucs_rate + A and
\* rate = numerator * 100 / base_price; 0.0 unless sucs_rate > 0 and
\* base_price > 0
BidRate(bidprcAmt, A_value, sucs_rate, base_price) ==
    IF FLess(FZero(FALSE), sucs_rate) /\ FLess(FZero(FALSE), base_price)
    THEN LET numerator == FAdd(FDiv(FMul(FSub(FromInt(bidprcAmt), A_value), FromInt(100)),
                                    sucs_rate), A_value)
         IN  FDiv(FMul(numerator, FromInt(100)), base_price)
    ELSE FZero(FALSE)

\* lines 557-558: the bid items whose bidprcAmt is numeric (dropna)
RECURSIVE NumericBids(_)
NumericBids(items40) ==
    Only({
        IF items4 = <<>> THEN <<>>
        ELSE IF Head(items4).numeric
             THEN <<Head(items4)>> \o NumericBids(Tail(items4))
             ELSE NumericBids(Tail(items4))
        : items4 \in {items40}})

\* line 579: drop_duplicates(subset=["rate"]): the first row of each rate
RECURSIVE DropDuplicateRates(_)
DropDuplicateRates(rows0) ==
    Only({
        IF rows = <<>> THEN <<>>
        ELSE LET init == DropDuplicateRates(SubSeq(rows, 1, Len(rows) - 1))
                 last == rows[Len(rows)]
             IN  IF \E i \in 1..(Len(rows) - 1) : FEq(rows[i].rate, last.rate)
                 THEN init ELSE Append(init, last)
        : rows \in {rows0}})

\* lines 580-582: the rows with 90 <= rate <= 110
RECURSIVE InBand(_)
InBand(rows0) ==
    Only({
        IF rows = <<>> THEN <<>>
        ELSE IF FLeq(FromInt(90), Head(rows).rate) /\ FLeq(Head(rows).rate, FromInt(110))
             THEN <<Head(rows)>> \o InBand(Tail(rows))
             ELSE InBand(Tail(rows))
        : rows \in {rows0}})

\* sort_values("rate"): ascending by rate, rows of equal rate in their order
RECURSIVE InsertRow(_, _)
InsertRow(rows0, x0) ==
    Only({
        IF rows = <<>> THEN <<x>>
        ELSE IF FLess(x.rate, Head(rows).rate) THEN <<x>> \o rows
        ELSE <<Head(rows)>> \o InsertRow(Tail(rows), x)
        : rows \in {rows0}, x \in {x0}})

RECURSIVE SortRows(_)
SortRows(rows0) ==
    Only({
        IF rows = <<>> THEN <<>>
        ELSE InsertRow(SortRows(SubSeq(rows, 1, Len(rows) - 1)), rows[Len(rows)])
        : rows \in {rows0}})

\* the error outcome: (pd.DataFrame(), message, None, pd.DataFrame(), []);
\* err is "fetch" (line 531), "exception" (line 613) or "" for None
AGErrorOutcome(kind) ==
    [df |-> <<>>, err |-> kind, info_some |-> FALSE,
     info |-> [winner |-> "", rate |-> FZero(FALSE), officer |-> ""],
     df_rates |-> <<>>, bidder_rates |-> <<>>]

\* no outcome yet
AGNoOutcome == AGErrorOutcome("")

\* lines 563-567: df4 with its rate column, one row per bid with a numeric
\* amount, in the order of the response
RatedBids(df40, A_value, sucs_rate, base_price) ==
    Only({
        [i \in Idx(df4) |->
            [name |-> df4[i].prcbdrNm, seq |-> 0,
             rate |-> BidRate(df4[i].bidprcAmt, A_value, sucs_rate, base_price)]] \o <<>>
        : df4 \in {df40}})

\* lines 537-608: reconstruction from the bid items, the combined table and
\* the normal return.  has_cols: the frame of bidders has the columns that
\* line 596 selects (it does not when no bid with a numeric amount is left:
\* df4_clean is then pd.DataFrame(), and selecting the columns raises).
\* The winning rate is rounded by Python's round (line 575), the rate column
\* of the combined table by numpy's (line 605), after the duplicates were
\* dropped; line 606 adds the column of the announcement number.
Reconstruct(items4, officer_name, df_rates, base_price, sucs_rate, A_value, gongo_no) ==
    LET df4 == NumericBids(items4)
        rated == RatedBids(df4, A_value, sucs_rate, base_price)
        has_cols == df4 # <<>>
        top_info == IF df4 = <<>>
                    THEN [winner |-> "none", rate |-> FZero(FALSE), officer |-> officer_name]
                    ELSE [winner |-> df4[1].prcbdrNm, rate |-> PyRound(rated[1].rate, 5),
                          officer |-> officer_name]
        bidder_rates_all == [i \in Idx(rated) |-> rated[i].rate]
        df4_clean == InBand(DropDuplicateRates(rated))
        theo_rows == [i \in Idx(df_rates) |-> [name |-> "", seq |-> i, rate |-> df_rates[i]]]
        concat == IF df_rates # <<>> THEN theo_rows \o df4_clean ELSE df4_clean
        sorted == SortRows(concat)
        df_combined == [i \in Idx(sorted) |->
                          [name |-> sorted[i].name, seq |-> sorted[i].seq,
                           rate |-> NpRound(sorted[i].rate, 5), gongo_no |-> gongo_no]]
    IN  IF df_rates # <<>> /\ ~has_cols
        THEN AGErrorOutcome("exception")
        ELSE [df |-> df_combined \o <<>>, err |-> "", info_some |-> TRUE, info |-> top_info,
              df_rates |-> df_rates, bidder_rates |-> bidder_rates_all \o <<>>]

(***************************************************************************)
(* process_analysis (src/app.py 623-930): the pure parts.                  *)
(***************************************************************************)

\* find_hot_zone's default window=0.3 and step=0.05, and the bin_width=0.0005
\* that process_analysis passes
DefaultWindow == Dec(3, 10)

DefaultStep == Dec(5, 100)

BlueBinWidth == Dec(5, 10000)

\* best_range_str without a result ('없음')
NoRange == "none"

\* The text of the identifiers is held as its pieces, the stretches between
\* the separators, and the separator it uses ("comma" or "newline"); a piece
\* is an identifier text or BlankText (nothing but blanks).
BlankText == <<"">>

\* (the mutant of IsBlank: only the empty text is blank, nothing is stripped)
IsBlankNoStrip(gongo_input) == gongo_input.pieces = <<BlankText>>

\* line 626: not gongo_input.strip(); a newline is stripped, a comma is not
IsBlank(gongo_input) ==
    /\ \A i \in Idx(gongo_input.pieces) : gongo_input.pieces[i] = BlankText
    /\ gongo_input.sep = "newline" \/ Len(gongo_input.pieces) <= 1

\* line 671: the pieces that are not blank, in order
RECURSIVE GongoListOf(_)
GongoListOf(pieces0) ==
    Only({
        IF pieces = <<>> THEN <<>>
        ELSE IF Head(pieces) = BlankText THEN GongoListOf(Tail(pieces))
        ELSE <<Head(pieces)>> \o GongoListOf(Tail(pieces))
        : pieces \in {pieces0}})

\* the mutant of PassesFilter: the officer filter lets every announcement in
PassesFilterAlways(target_clean, officer) == TRUE

\* lines 696-697 and 712: the officer filter, off when the name is blank
PassesFilter(target_clean, officer) ==
    target_clean = "" \/ officer = target_clean

\* a log line without announcement data
PlainLine(mark, gongo, err) ==
    [mark |-> mark, gongo |-> gongo, err |-> err, officer |-> "", winner |-> "",
     rate |-> FZero(FALSE)]

\* lines 688-715: the log line of one announcement: the error marker with the
\* message, the exclusion with the officer, or the inclusion with the officer,
\* the winner and the winning rate
LogLine(gongo, ret, target_clean) ==
    IF ret.err # "" THEN PlainLine("error", gongo, ret.err)
    ELSE IF target_clean # "" /\ ret.info.officer # target_clean
    THEN [PlainLine("excluded", gongo, "") EXCEPT !.officer = ret.info.officer]
    ELSE [mark |-> IF target_clean # "" THEN "included" ELSE "ok",
          gongo |-> gongo, err |-> "", officer |-> ret.info.officer,
          winner |-> ret.info.winner, rate |-> ret.info.rate]

\* the mutant of AddWinnerRate: the winning rate is pooled whatever its value
AddWinnerRateAlways(winner_rates, w_rate) == Append(winner_rates, w_rate)

\* lines 705-706 and 718-719: a winning rate other than 0 is pooled
AddWinnerRate(winner_rates, w_rate) ==
    IF ~FIsZero(w_rate) THEN Append(winner_rates, w_rate) ELSE winner_rates

\* the mutant of NoDataStats: nothing is counted as missing
NoDataStatsNoMissing(gongo_list) ==
    [total |-> Len(gongo_list), filtered |-> 0, missing |-> 0,
     blue_range |-> NoRange,
     rec_rate |-> [some |-> FALSE, v |-> FZero(FALSE)]]

\* lines 731-737: the statistics of the no-data return
NoDataStats(gongo_list) ==
    [total |-> Len(gongo_list), filtered |-> 0, missing |-> Len(gongo_list),
     blue_range |-> NoRange,
     rec_rate |-> [some |-> FALSE, v |-> FZero(FALSE)]]

\* lines 765-770: col_name, made of the announcement number in the first row
\* of the combined table (the identifier without its ordinal), the officer
\* and the winner
ColName(res) == <<res.df[1].gongo_no, res.info.officer, res.info.winner>>

\* line 772, the column labels of pd.merge (suffixes "_x", "_y"): a label of
\* the left table equal to the new column's gets "_x" and the new column
\* "_y"; the merge raises MergeError when the suffix makes a label of the
\* left table equal to another one (pandas 2.0 and later)
MergeLabels(labels, name) ==
    LET plain == [name |-> name, suffix |-> ""]
        llabels == [i \in Idx(labels) |->
                      IF labels[i] = plain THEN [name |-> name, suffix |-> "_x"]
                      ELSE labels[i]]
        dups == \E j \in Idx(labels) :
                    /\ \E i \in 1..(j - 1) : llabels[i] = llabels[j]
                    /\ ~\E k \in 1..(j - 1) : labels[k] = labels[j]
    IN  IF ~\E i \in Idx(labels) : labels[i] = plain
        THEN [raised |-> FALSE, labels |-> Append(labels, plain)]
        ELSE IF dups THEN [raised |-> TRUE, labels |-> labels]
        ELSE [raised |-> FALSE,
              labels |-> Append(llabels, [name |-> name, suffix |-> "_y"])]

\* lines 762-774: the labels after the merges, or the first merge that raises
RECURSIVE MergeColumns(_, _)
MergeColumns(labels0, results0) ==
    Only({
        IF results = <<>> THEN [raised |-> FALSE, labels |-> labels]
        ELSE LET m == MergeLabels(labels, ColName(Head(results)))
             IN  IF m.raised THEN m ELSE MergeColumns(m.labels, Tail(results))
        : labels \in {labels0}, results \in {results0}})

\* merged_df before it is built (None in the returns without a table)
NoTable == [some |-> FALSE, columns |-> <<>>, rows |-> <<>>]

\* a blank cell of the merged table (fillna(""))
BlankCell == [name |-> "", seq |-> 0]

\* line 754: pd.concat of the rate columns, .unique(): first occurrences
RECURSIVE UniqueRates(_)
UniqueRates(rates0) ==
    Only({
        IF rates = <<>> THEN <<>>
        ELSE LET init == UniqueRates(SubSeq(rates, 1, Len(rates) - 1))
                 last == rates[Len(rates)]
             IN  IF \E i \in Idx(init) : FEq(init[i], last) THEN init ELSE Append(init, last)
        : rates \in {rates0}})

\* the rate column of all combined tables, one after the other
RECURSIVE AllRates(_)
AllRates(results0) ==
    Only({
        IF results = <<>> THEN <<>>
        ELSE [i \in Idx(Head(results).df) |-> Head(results).df[i].rate]
             \o AllRates(Tail(results))
        : results \in {results0}})

\* the rows of a table with a given rate, in order
RECURSIVE RowsAt(_, _)
RowsAt(rows0, r0) ==
    Only({
        IF rows = <<>> THEN <<>>
        ELSE IF FEq(Head(rows).rate, r) THEN <<Head(rows)>> \o RowsAt(Tail(rows), r)
        ELSE RowsAt(Tail(rows), r)
        : rows \in {rows0}, r \in {r0}})

\* the rows pd.merge(how="outer") makes for one rate: every left row paired
\* with every right row of that rate, a blank where one side has none
MergeAt(r0, left0, right0, ncols0) ==
    Only({
        LET L == IF left = <<>> THEN <<[rate |-> r, cells |-> [c \in 1..ncols |-> BlankCell]]>>
                 ELSE left
            R == IF right = <<>> THEN <<BlankCell>>
                 ELSE [j \in Idx(right) |-> [name |-> right[j].name, seq |-> right[j].seq]]
        IN  [k \in 1..(Len(L) * Len(R)) |->
                [rate |-> r,
                 cells |-> Append(L[((k - 1) \div Len(R)) + 1].cells, R[((k - 1) % Len(R)) + 1])]]
        : r \in {r0}, left \in {left0}, right \in {right0}, ncols \in {ncols0}})

\* line 772: pd.merge(merged_df, sub_df, on="rate", how="outer") over the
\* ascending rates of both tables
RECURSIVE MergeKeys(_, _, _, _)
MergeKeys(keys0, merged0, sub_df0, ncols0) ==
    Only({
        IF keys = <<>> THEN <<>>
        ELSE MergeAt(Head(keys), RowsAt(merged, Head(keys)), RowsAt(sub_df, Head(keys)), ncols)
             \o MergeKeys(Tail(keys), merged, sub_df, ncols)
        : keys \in {keys0}, merged \in {merged0}, sub_df \in {sub_df0}, ncols \in {ncols0}})

OuterMerge(merged0, sub_df0, ncols0) ==
    Only({
        LET keys == Sorted(UniqueRates([i \in Idx(merged) |-> merged[i].rate]
                                       \o [i \in Idx(sub_df) |-> sub_df[i].rate]))
        IN  MergeKeys(keys, merged, sub_df, ncols)
        : merged \in {merged0}, sub_df \in {sub_df0}, ncols \in {ncols0}})

\* lines 762-774: the merges, announcement by announcement
RECURSIVE MergeAll(_, _, _)
MergeAll(merged0, results0, ncols0) ==
    Only({
        IF results = <<>> THEN merged
        ELSE MergeAll(OuterMerge(merged, Head(results).df, ncols), Tail(results), ncols + 1)
        : merged \in {merged0}, results \in {results0}, ncols \in {ncols0}})

\* lines 754-776: the merged table, one cell per merged announcement in a row
MergedTable(results0) ==
    Only({
        LET all_rates == Sorted(UniqueRates(AllRates(results)))
            start == [i \in Idx(all_rates) |-> [rate |-> all_rates[i], cells |-> <<>>]]
        IN  SortRows(MergeAll(start, results, 0))
        : results \in {results0}})

\* hot_start, hot_end = None, None
NoZone ==
    [start |-> [some |-> FALSE, v |-> FZero(FALSE)],
     end |-> [some |-> FALSE, v |-> FZero(FALSE)]]

\* lines 790-794: the hot zone of the pooled winning rates
HotZoneOf(rates) ==
    IF rates = <<>> THEN NoZone
    ELSE Only({
             IF ~hz.some
             THEN [start |-> [some |-> TRUE, v |-> SeqMin(rates)],
                   end |-> [some |-> TRUE, v |-> SeqMax(rates)]]
             ELSE [start |-> [some |-> TRUE, v |-> hz.start],
                   end |-> [some |-> TRUE, v |-> hz.end]]
             : hz \in {find_hot_zone(rates, DefaultWindow, DefaultStep)}})

\* lines 839-844: the scorer runs only with a hot zone and both pools non-empty
BlueCalled(zone, theo_all, bids_all) ==
    zone.start.some /\ zone.end.some /\ theo_all # <<>> /\ bids_all # <<>>

\* lines 838-851: the result of the scorer, or None, None, None
BlueOf(zone, theo_all, bids_all) ==
    IF BlueCalled(zone, theo_all, bids_all)
    THEN find_blue_ocean_v3(theo_all, bids_all, zone.start, zone.end, BlueBinWidth)
    ELSE BONone

\* round(x, 4) of the numpy scalar x at line 860.  The numpy installed decides
\* which rounding runs: a numpy whose scalars have their own __round__ rounds
\* as np.round does, an older one leaves the scalar to Python's float
\* rounding.  The requirements pin no version, so both are outcomes.
ScalarRounds == {"numpy", "python"}

ScalarRound4(x, scalar_round) ==
    IF scalar_round = "numpy" THEN NpRound(x, 4) ELSE PyRound(x, 4)

\* the mutant of RecRateOf: the midpoint of the best range instead of its
\* upper bound
RecRateOfMidpoint(b, scalar_round) ==
    IF b.df_some /\ b.range_some
    THEN [some |-> TRUE,
          v |-> ScalarRound4(FDiv(FAdd(b.best_range[1], b.best_range[2]), FromInt(2)),
                             scalar_round)]
    ELSE [some |-> FALSE, v |-> FZero(FALSE)]

\* lines 856-860: rec_rate = round(best_range[1], 4), or None
RecRateOf(b, scalar_round) ==
    IF b.df_some /\ b.range_some
    THEN [some |-> TRUE, v |-> ScalarRound4(b.best_range[2], scalar_round)]
    ELSE [some |-> FALSE, v |-> FZero(FALSE)]

\* str(n) of a natural number
RECURSIVE NatText(_)
NatText(n) ==
    IF n < 10 THEN <<"0", "1", "2", "3", "4", "5", "6", "7", "8", "9">>[n + 1]
    ELSE NatText(n \div 10) \o NatText(n % 10)

\* f"{x:.3f}": the decimal of three places nearest to the exact value of x,
\* ties to even, with the sign of x
Fixed3(x) ==
    Only({(IF x.neg THEN "-" ELSE "") \o NatText(k \div 1000) \o "."
              \o NatText((k \div 100) % 10) \o NatText((k \div 10) % 10) \o NatText(k % 10) :
          k \in {RoundedTimes(x, 1000)}})

\* lines 855-859: best_range_str, the text of the two bounds, NoRange without
\* a result
BlueRangeOf(b) ==
    IF b.df_some /\ b.range_some
    THEN Fixed3(b.best_range[1]) \o "% ~ " \o Fixed3(b.best_range[2]) \o "%"
    ELSE NoRange

\* lines 908-918: the statistics of a batch with a merged table
StatsOf(gongo_list, results_for_merge, b, scalar_round) ==
    [total |-> Len(gongo_list),
     filtered |-> Len(results_for_merge),
     missing |-> Len(gongo_list) - Len(results_for_merge),
     blue_range |-> BlueRangeOf(b),
     rec_rate |-> RecRateOf(b, scalar_round)]

(***************************************************************************)
(* Bounds of the find_hot_zone inputs.                                     *)
(***************************************************************************)
MaxRate == 6

MaxRates == 3

MaxWindow == 3

MaxStep == 2

VARIABLES hz_rates, hz_window, hz_step, hz_pc, hz_sorted, hz_start, hz_best,
          hz_seen, hz_ret

hzVars == <<hz_rates, hz_window, hz_step, hz_pc, hz_sorted, hz_start, hz_best,
            hz_seen, hz_ret>>

VARIABLES bo_theo, bo_bids, bo_hs, bo_he, bo_bw, bo_pc, bo_ret

boVars == <<bo_theo, bo_bids, bo_hs, bo_he, bo_bw, bo_pc, bo_ret>>

\* the procurement service: remote[g] is what it holds for the announcement
\* number g, and outages is the number of requests it may still fail
VARIABLES remote, outages

\* analyze_gongo: the identifier text in analysis, the position in the
\* function, its locals, the lookups made so far with their success, and the
\* outcome; calls is the sequence of the calls and requests made since the
\* start, each a pair: a call or a return with the identifier text, a request
\* with the announcement number it is made for
VARIABLES ag_gongo, ag_pc, officer_name, df_rates, base_price, sucs_rate, A_value,
          ag_log, ag_ret, calls

agVars == <<ag_gongo, ag_pc, officer_name, df_rates, base_price, sucs_rate, A_value,
            ag_log, ag_ret, calls>>

\* process_analysis: SERVICE_KEY, the arguments, the position, the
\* accumulators of the loop and the results
VARIABLES service_key, target_officer, gongo_input, gongo_list, pa_pc, pa_idx, logs,
          results_for_merge, scatter_data, winner_rates, theoretical_rates_all,
          bidder_rates_all, merged_df, hot_zone, blue, stats, pa_out

paVars == <<service_key, target_officer, gongo_input, gongo_list, pa_pc, pa_idx, logs,
            results_for_merge, scatter_data, winner_rates, theoretical_rates_all,
            bidder_rates_all, merged_df, hot_zone, blue, stats, pa_out>>

vars == <<hzVars, boVars, remote, outages, agVars, paVars>>

(***************************************************************************)
(* The announcements and what the service holds for them.                  *)
(***************************************************************************)

\* announcement numbers
Ids == {"g1", "g2", "g3", "g4"}

\* ordinals of an announcement
Ords == {"00", "01"}

\* What the service holds for an announcement.  notice is the answer of the
\* announcement query (officer and threshold lookups): found tells that it
\* has an item, record that the first item is a record of fields (it is null
\* otherwise), fields are the three officer fields and sucs the threshold;
\* estimates[o] are the base-price estimates of the ordinal o; aval is the
\* sum of the cost fields; bids are the bid items.

\* what the service holds for an announcement without any data
NoData ==
    [notice |-> [found |-> FALSE, record |-> TRUE, fields |-> <<"", "", "">>,
                 has_sucs |-> FALSE, sucs |-> 0],
     estimates |-> [o \in Ords |-> <<>>], aval |-> 0, bids |-> <<>>]

\* stats_empty, lines 627-633
StatsEmpty ==
    [total |-> 0, filtered |-> 0, missing |-> 0,
     blue_range |-> NoRange,
     rec_rate |-> [some |-> FALSE, v |-> FZero(FALSE)]]

\* no call of analyze_gongo in progress
AGIdle ==
    /\ ag_gongo = BlankText
    /\ ag_pc = "idle"
    /\ officer_name = ""
    /\ df_rates = <<>>
    /\ base_price = FZero(FALSE)
    /\ sucs_rate = FZero(FALSE)
    /\ A_value = FZero(FALSE)
    /\ ag_log = <<>>
    /\ ag_ret = AGNoOutcome
    /\ calls = <<>>

\* no call of process_analysis
PAIdle ==
    /\ service_key = ""
    /\ target_officer = ""
    /\ gongo_input = [sep |-> "newline", pieces |-> <<BlankText>>]
    /\ gongo_list = <<>>
    /\ pa_pc = "idle"
    /\ pa_idx = 0
    /\ logs = <<>>
    /\ results_for_merge = <<>>
    /\ scatter_data = <<>>
    /\ winner_rates = <<>>
    /\ theoretical_rates_all = <<>>
    /\ bidder_rates_all = <<>>
    /\ merged_df = NoTable
    /\ hot_zone = NoZone
    /\ blue = BONone
    /\ stats = StatsEmpty
    /\ pa_out = ""

\* no service is consulted
RemoteIdle == remote = [g \in Ids |-> NoData] /\ outages = 0

\* the rate, window or step of k tenths
Tenths(k) == Dec(k, 10)

\* the arguments of testable scenario 2
HZScenario2 ==
    [rates |-> <<Dec(9710, 100), Dec(9720, 100), Dec(9715, 100), Dec(9718, 100),
                 Dec(9950, 100)>>,
     window |-> Dec(3, 10), step |-> Dec(5, 100)]

\* the arguments a call of find_hot_zone is checked on: rates, windows and
\* steps that are whole tenths, and scenario 2
HZInputs ==
    {[rates |-> [i \in Idx(r) |-> Tenths(r[i])] \o <<>>, window |-> Tenths(w),
      step |-> Tenths(st)] :
        r \in SeqsUpTo(0..MaxRate, MaxRates), w \in 0..MaxWindow, st \in 1..MaxStep}
    \cup {HZScenario2}

\* no call of find_blue_ocean_v3 (the other specifications)
BOIdle ==
    /\ bo_theo = <<>>
    /\ bo_bids = <<>>
    /\ bo_hs = [some |-> FALSE, v |-> FZero(FALSE)]
    /\ bo_he = [some |-> FALSE, v |-> FZero(FALSE)]
    /\ bo_bw = FromInt(1)
    /\ bo_pc = "idle"
    /\ bo_ret = BONone

\* before the call: the arguments are bound, nothing has run
HZInit ==
    /\ \E a \in HZInputs :
          /\ hz_rates = a.rates
          /\ hz_window = a.window
          /\ hz_step = a.step
    /\ hz_pc = "call"
    /\ hz_sorted = <<>>
    /\ hz_start = FZero(FALSE)
    /\ hz_best = HZInitBest
    /\ hz_seen = <<>>
    /\ hz_ret = HZNone
    /\ BOIdle
    /\ RemoteIdle
    /\ AGIdle
    /\ PAIdle

\* a call that never happens (the other specifications)
HZIdle ==
    /\ hz_rates = <<>>
    /\ hz_window = FZero(FALSE)
    /\ hz_step = FromInt(1)
    /\ hz_pc = "idle"
    /\ hz_sorted = <<>>
    /\ hz_start = FZero(FALSE)
    /\ hz_best = HZInitBest
    /\ hz_seen = <<>>
    /\ hz_ret = HZNone

\* lines 260-267: the empty-list return, or sorting and the loop's initial state
HZEnter ==
    /\ hz_pc = "call"
    /\ IF hz_rates = <<>>
       THEN /\ hz_ret' = HZNone
            /\ hz_pc' = "done"
            /\ UNCHANGED <<hz_sorted, hz_start, hz_best>>
       ELSE /\ hz_sorted' = Sorted(hz_rates)
            /\ hz_start' = SeqMin(Sorted(hz_rates))
            /\ hz_best' = HZInitBest
            /\ hz_pc' = "loop"
            /\ UNCHANGED hz_ret
    /\ UNCHANGED <<hz_rates, hz_window, hz_step, hz_seen>>
    /\ UNCHANGED <<boVars, remote, outages, agVars, paVars>>

\* lines 268-274: one iteration of the while loop
HZIter ==
    /\ hz_pc = "loop"
    /\ FLeq(hz_start, SeqMax(hz_sorted))
    /\ hz_best' = HZBody(hz_sorted, hz_start, hz_best, hz_window)
    /\ hz_seen' = Append(hz_seen, hz_start)
    /\ hz_start' = FAdd(hz_start, hz_step)
    /\ UNCHANGED <<hz_rates, hz_window, hz_step, hz_pc, hz_sorted, hz_ret>>
    /\ UNCHANGED <<boVars, remote, outages, agVars, paVars>>

\* line 276: the loop condition fails and the best window is returned
HZReturn ==
    /\ hz_pc = "loop"
    /\ FLess(SeqMax(hz_sorted), hz_start)
    /\ hz_ret' = hz_best
    /\ hz_pc' = "done"
    /\ UNCHANGED <<hz_rates, hz_window, hz_step, hz_sorted, hz_start, hz_best, hz_seen>>
    /\ UNCHANGED <<boVars, remote, outages, agVars, paVars>>

HZNext ==
    \/ HZEnter
    \/ HZIter
    \/ HZReturn

SpecHZ == HZInit /\ [][HZNext]_vars

(***************************************************************************)
(* Claims about find_hot_zone.                                             *)
(***************************************************************************)

\* the number of input rates in the closed window that starts at s
HZCount(s) == CountIn(hz_rates, s, FAdd(s, hz_window))

\* |x - y| is below a billionth: x and y are equal but for rounding
HZNear(x, y) == FLess(FAbs(FSub(x, y)), Dec(1, 1000000000))

\* C3 (as stated): the returned count is the largest number of input rates in
\* any closed interval [s, s + window], whatever its start s (among the
\* intervals holding the most rates there is one that starts at a rate).
C3_Original ==
    (hz_pc = "done" /\ hz_rates # <<>>) =>
        \A i \in Idx(hz_rates) : HZCount(hz_rates[i]) <= hz_ret.count

\* C3 (amended): the returned count is the largest number of input rates in
\* any of the windows [s, s + window] whose start s = min + k*step the search
\* visits, and some visited window has that many.
C3_MaxOverVisited ==
    (hz_pc = "done" /\ hz_rates # <<>>) =>
        /\ \A i \in Idx(hz_seen) : HZCount(hz_seen[i]) <= hz_ret.count
        /\ \E i \in Idx(hz_seen) : HZCount(hz_seen[i]) = hz_ret.count

\* a finished search over two or more visited windows of different counts
C3_Witness ==
    /\ hz_pc = "done"
    /\ Len(hz_seen) >= 2
    /\ \E i, j \in Idx(hz_seen) : HZCount(hz_seen[i]) < HZCount(hz_seen[j])
    /\ hz_ret.count >= 2

\* C4: the search examines exactly the starts min + k*step <= max, in
\* ascending order (each start is the float sum of the one before and the
\* step, equal to min + k*step but for rounding), counts the rates in the
\* closed window at each, and returns the examined window of largest count,
\* the lowest start among ties (scenario 2 gives the window from 97.1 to
\* 97.1 + 0.3, which is 97.4 to five decimals, with count 4).
C4_FirstBestWindow ==
    (hz_pc = "done" /\ hz_rates # <<>>) =>
        LET n == Len(hz_seen)
            max_r == SeqMax(hz_rates)
        IN  /\ n >= 1
            /\ hz_seen[1] = SeqMin(hz_rates)
            /\ \A i \in 1..(n - 1) :
                  /\ hz_seen[i + 1] = FAdd(hz_seen[i], hz_step)
                  /\ FLess(hz_seen[i], hz_seen[i + 1])
            /\ \A i \in 1..n :
                  /\ FLeq(hz_seen[i], max_r)
                  /\ HZNear(hz_seen[i],
                            FAdd(hz_seen[1], FMul(FromInt(i - 1), hz_step)))
            /\ FLess(max_r, FAdd(hz_seen[n], hz_step))
            /\ hz_ret.some
            /\ \E i \in 1..n : hz_seen[i] = hz_ret.start
            /\ hz_ret.end = FAdd(hz_ret.start, hz_window)
            /\ hz_ret.count = HZCount(hz_ret.start)
            /\ hz_ret.count =
                  Cardinality({k \in Idx(hz_rates) :
                      /\ ~FLess(hz_rates[k], hz_ret.start)
                      /\ ~FLess(hz_ret.end, hz_rates[k])})
            /\ \A i \in 1..n : HZCount(hz_seen[i]) <= hz_ret.count
            /\ \A i \in 1..n :
                  HZCount(hz_seen[i]) = hz_ret.count => FLeq(hz_ret.start, hz_seen[i])
            /\ (hz_rates = HZScenario2.rates /\ hz_window = HZScenario2.window
                    /\ hz_step = HZScenario2.step)
                 => /\ hz_ret.start = Dec(9710, 100)
                    /\ PyRound(hz_ret.end, 5) = Dec(9740, 100)
                    /\ hz_ret.count = 4

\* a finished search in which a later examined window ties with the returned one
C4_Witness ==
    /\ hz_pc = "done"
    /\ hz_ret.some
    /\ \E i \in Idx(hz_seen) :
          /\ FLess(hz_ret.start, hz_seen[i])
          /\ HZCount(hz_seen[i]) = hz_ret.count
    /\ \E i \in Idx(hz_seen) : HZCount(hz_seen[i]) < hz_ret.count

\* before any call: no arguments are bound
HZLiveInit ==
    /\ HZIdle
    /\ BOIdle
    /\ RemoteIdle
    /\ AGIdle
    /\ PAIdle

\* the arguments of the calls under fair scheduling: the lists shorter than
\* the longest, and scenario 2
HZLiveInputs == {a \in HZInputs : Len(a.rates) < MaxRates} \cup {HZScenario2}

\* line 258: a caller calls find_hot_zone with some arguments
HZCall ==
    /\ hz_pc = "idle"
    /\ \E a \in HZLiveInputs :
          /\ hz_rates' = a.rates
          /\ hz_window' = a.window
          /\ hz_step' = a.step
    /\ hz_pc' = "call"
    /\ UNCHANGED <<hz_sorted, hz_start, hz_best, hz_seen, hz_ret>>
    /\ UNCHANGED <<boVars, remote, outages, agVars, paVars>>

HZLiveNext ==
    \/ HZCall
    \/ HZEnter
    \/ HZIter
    \/ HZReturn

\* a step of the function can be taken: from the call to the return.  This is
\* ENABLED <<HZNext>>_vars written out: HZEnter can run whenever the call is
\* entered, one of HZIter and HZReturn whenever the loop is reached, and each
\* changes hz_pc or hz_seen.
HZCanStep == hz_pc \in {"call", "loop"}

\* the call under fair scheduling: once called, a step of the function that
\* can be taken is taken (the interpreter runs the loop on).  The condition
\* is weak fairness of HZNext, with its enabling condition as HZCanStep.
SpecHZLive ==
    HZLiveInit /\ [][HZLiveNext]_vars /\ ([]<>~HZCanStep \/ []<><<HZNext>>_vars)

\* C18: find_hot_zone returns (None, None, 0) exactly when the list is empty;
\* for a non-empty list and step > 0 (window >= 0) the loop terminates and
\* the call returns a window with min <= start <= max, end = start + window
\* and count >= 1, the count being that of the returned window; a list [r]
\* gives [r, r + window] with count 1.  A non-empty list never gets the None
\* answer that the fallback of process_analysis (line 793) waits for.
C18_TerminatesWithWindow ==
    /\ (hz_pc = "call") ~> (hz_pc = "done")
    /\ [](hz_pc = "done" =>
            /\ (hz_ret = HZNone) <=> (hz_rates = <<>>)
            /\ hz_ret.some <=> (hz_rates # <<>>)
            /\ hz_rates # <<>> =>
                  /\ FLeq(SeqMin(hz_rates), hz_ret.start)
                  /\ FLeq(hz_ret.start, SeqMax(hz_rates))
                  /\ hz_ret.end = FAdd(hz_ret.start, hz_window)
                  /\ hz_ret.count >= 1
                  /\ hz_ret.count = CountIn(hz_rates, hz_ret.start, hz_ret.end)
            /\ Len(hz_rates) = 1 =>
                  hz_ret = [some |-> TRUE, start |-> hz_rates[1],
                            end |-> FAdd(hz_rates[1], hz_window), count |-> 1])

\* a finished search over three or more windows for two different rates that
\* share the returned window
C18_Witness ==
    /\ hz_pc = "done"
    /\ Len(hz_rates) >= 2
    /\ hz_rates[1] # hz_rates[2]
    /\ Len(hz_seen) >= 3
    /\ hz_ret.some
    /\ hz_ret.count >= 2

(***************************************************************************)
(* find_blue_ocean_v3 as a call on bounded arguments: rates and hot-zone   *)
(* bounds that are whole numbers, bins of a whole width.                   *)
(***************************************************************************)
MaxBORate == 2

MaxTheo == 5

MaxBids == 2

MaxBinWidth == 2

\* the ascending sequences over S of length 0..n (the scorer filters and
\* counts its two lists, so their order does not reach the result)
AscSeqs(S, n) ==
    {q \in SeqsUpTo(S, n) : \A i \in 1..(Len(q) - 1) : q[i] <= q[i + 1]}

\* a list of whole rates as floats
BORates(q) == [i \in Idx(q) |-> FromInt(q[i])] \o <<>>

\* hot-zone bounds: a value, or None
BOBoundNone == [some |-> FALSE, v |-> FZero(FALSE)]

BOBound(k) == [some |-> TRUE, v |-> FromInt(k)]

\* the hot zones: from the lowest rate or the next one to just above the
\* highest, to the highest, and to the start itself (an empty zone is void of
\* rates); and the zones with a bound that is None
BOZones ==
    {<<BOBound(a), BOBound(b)>> : a \in 0..1, b \in {1, MaxBORate, MaxBORate + 1}}
    \cup {<<BOBoundNone, BOBoundNone>>,
          <<BOBoundNone, BOBound(MaxBORate)>>,
          <<BOBound(0), BOBoundNone>>}

BOInit ==
    /\ \E q \in AscSeqs(0..MaxBORate, MaxTheo) : bo_theo = BORates(q)
    /\ \E q \in AscSeqs({0, MaxBORate}, MaxBids) : bo_bids = BORates(q)
    /\ \E z \in BOZones : bo_hs = z[1] /\ bo_he = z[2]
    /\ \E w \in {1, MaxBinWidth} : bo_bw = FromInt(w)
    /\ bo_pc = "call"
    /\ bo_ret = BONone
    /\ HZIdle
    /\ RemoteIdle
    /\ AGIdle
    /\ PAIdle

\* lines 294-356: the call runs to its return
BOCall ==
    /\ bo_pc = "call"
    /\ bo_ret' = find_blue_ocean_v3(bo_theo, bo_bids, bo_hs, bo_he, bo_bw)
    /\ bo_pc' = "done"
    /\ UNCHANGED <<bo_theo, bo_bids, bo_hs, bo_he, bo_bw>>
    /\ UNCHANGED <<hzVars, remote, outages, agVars, paVars>>

BONext == BOCall

SpecBO == BOInit /\ [][BONext]_vars

(***************************************************************************)
(* Claims about find_blue_ocean_v3.                                        *)
(***************************************************************************)

\* the sum of a tuple of whole numbers
RECURSIVE SeqSum(_)
SeqSum(s) == IF s = <<>> THEN 0 ELSE Head(s) + SeqSum(Tail(s))

\* the bins of the theoretical rates of the hot zone, in the bins the call
\* builds (0: in no bin)
BOTheoBinsOfCall ==
    HistBins(FilterIn(bo_theo, bo_hs.v, bo_he.v), BOBins(bo_hs.v, bo_he.v, bo_bw))

\* C5: the call returns (None, None, None) when a hot-zone bound is None,
\* when no theoretical rate or no bidder rate lies in [hot_start, hot_end],
\* and when every bin has theoretical count zero; the three outputs are all
\* None or all not None.
C5_NoResultCases ==
    bo_pc = "done" =>
        /\ (~bo_hs.some \/ ~bo_he.some) => bo_ret = BONone
        /\ (bo_hs.some /\ bo_he.some) =>
              /\ CountIn(bo_theo, bo_hs.v, bo_he.v) = 0 => bo_ret = BONone
              /\ CountIn(bo_bids, bo_hs.v, bo_he.v) = 0 => bo_ret = BONone
              /\ bo_ret # BONone =>
                    LET theo_bin_of == BOTheoBinsOfCall
                    IN  \E k \in Idx(theo_bin_of) : theo_bin_of[k] # 0
        /\ bo_ret.df_some = bo_ret.range_some
        /\ bo_ret.range_some = bo_ret.center_some

\* a returned no-result for a hot zone that holds theoretical rates but no bidder
C5_Witness ==
    /\ bo_pc = "done"
    /\ bo_hs.some /\ bo_he.some
    /\ CountIn(bo_theo, bo_hs.v, bo_he.v) > 0
    /\ CountIn(bo_bids, bo_hs.v, bo_he.v) = 0
    /\ Len(bo_bids) > 0
    /\ bo_ret = BONone

\* the largest theoretical count of a recorded bin
BOMaxTheo(rows) ==
    CHOOSE m \in {rows[i].theo_count : i \in Idx(rows)} :
        \A j \in Idx(rows) : rows[j].theo_count <= m

\* a double x = S * 2^e (e < 0) is the fraction t / d but for rounding:
\* |x - t / d| <= 2^-50 * (t / d), computed exactly on big numbers as
\* |S * d - t * 2^-e| * 2^50 <= t * 2^-e
NearBigFraction(x, t, d) ==
    LET a == BigMul(Sig(x), d)
        b == BigShl(t, -x.exp)
        diff == IF BigLess(a, b) THEN BigSub(b, a) ELSE BigSub(a, b)
    IN  x.exp < 0 /\ ~x.neg /\ ~BigLess(b, BigShl(diff, 50))

\* the same for a fraction of two small whole numbers
NearFraction(x, t, d) == NearBigFraction(x, BigOf(t), BigOf(d))

\* C6: every bin with a nonzero theoretical count is recorded with
\* score = (its theoretical count / the largest theoretical count) / (its
\* bidder count + 1), as a double (the value but for rounding); of two bins
\* with the same theoretical count the one with fewer bidders scores strictly
\* higher, and every score is in (0, 1].
C6_ScoreFormula ==
    (bo_pc = "done" /\ bo_ret.df_some) =>
        LET rows == bo_ret.rows
            m == BOMaxTheo(rows)
            theo_bin_of == BOTheoBinsOfCall
        IN  /\ Len(rows) = Cardinality({theo_bin_of[k] : k \in Idx(theo_bin_of)} \ {0})
            /\ SeqSum([i \in Idx(rows) |-> rows[i].theo_count])
                  = Cardinality({k \in Idx(theo_bin_of) : theo_bin_of[k] # 0})
            /\ \A i \in Idx(rows) :
                  /\ rows[i].theo_count > 0
                  /\ NearFraction(rows[i].score, rows[i].theo_count,
                                    m * (rows[i].bid_count + 1))
                  /\ FLess(FZero(FALSE), rows[i].score)
                  /\ FLeq(rows[i].score, FromInt(1))
            /\ \A i, j \in Idx(rows) :
                  (rows[i].theo_count = rows[j].theo_count
                      /\ rows[i].bid_count < rows[j].bid_count)
                  => FLess(rows[j].score, rows[i].score)

\* two recorded bins of equal theoretical count, one without bidders and one
\* with, in a histogram whose scores are not exact in binary (a count of 1 or
\* 2 against a largest count of 3)
C6_Witness ==
    /\ bo_pc = "done"
    /\ bo_ret.df_some
    /\ \E i, j \in Idx(bo_ret.rows) :
          /\ bo_ret.rows[i].theo_count = bo_ret.rows[j].theo_count
          /\ bo_ret.rows[i].bid_count = 0
          /\ bo_ret.rows[j].bid_count >= 1
    /\ \E i, j \in Idx(bo_ret.rows) :
          /\ bo_ret.rows[i].theo_count = 3
          /\ bo_ret.rows[j].theo_count < 3

\* C8: the best range lies inside the hot zone:
\* hot_start <= range start < range end <= hot_end.
C8_BestRangeInsideHotZone ==
    (bo_pc = "done" /\ bo_ret.range_some) =>
        /\ FLeq(bo_hs.v, bo_ret.best_range[1])
        /\ FLess(bo_ret.best_range[1], bo_ret.best_range[2])
        /\ FLeq(bo_ret.best_range[2], bo_he.v)

(***************************************************************************)
(* analyze_gongo as a sequence of lookups (src/app.py 446-617).  Each      *)
(* request either fails (fetch_json / fetch_xml return None) or returns    *)
(* what the service holds for the announcement number of the identifier.   *)
(***************************************************************************)

\* the five lookups of analyze_gongo, in the order of lines 463, 472, 509,
\* 519 and 527
Lookups == <<"officer", "estimates", "threshold", "avalue", "bids">>

\* the lookups made so far that failed / succeeded
Failed(name) == \E i \in Idx(ag_log) : ag_log[i] = [lookup |-> name, ok |-> FALSE]

Succeeded(name) == \E i \in Idx(ag_log) : ag_log[i] = [lookup |-> name, ok |-> TRUE]

\* a request is answered (TRUE) or fails (FALSE): HTTP error, unparsable body
\* or resultCode other than "00" (fetch_json and fetch_xml return None)
Answers == IF outages > 0 THEN BOOLEAN ELSE {TRUE}

\* lines 455-463 and 185-204: the call is entered, the identifier is split at
\* "-" and get_officer_name_final makes the officer lookup under the
\* announcement number.  When the first item of the answer is no record of
\* fields (null), `key in item` raises at line 201 and the handler of line
\* 610 returns the exception outcome: no other lookup is made
AGOfficer ==
    /\ ag_pc = "officer"
    /\ \E ok \in Answers :
          LET notice == remote[GongoNo(ag_gongo)].notice
              raised == ok /\ notice.found /\ ~notice.record
          IN  /\ officer_name' =
                    IF raised THEN officer_name
                    ELSE IF ok /\ notice.found THEN OfficerOfItem(notice.fields)
                    ELSE UnknownOfficer
              /\ outages' = IF ok THEN outages ELSE outages - 1
              /\ ag_log' = Append(ag_log, [lookup |-> "officer", ok |-> ok])
              /\ IF raised
                 THEN /\ ag_ret' = AGErrorOutcome("exception")
                      /\ ag_pc' = "returned"
                      /\ calls' = calls \o <<<<"officer", GongoNo(ag_gongo)>>,
                                             <<"return", ag_gongo>>>>
                 ELSE /\ ag_ret' = ag_ret
                      /\ ag_pc' = "estimates"
                      /\ calls' = Append(calls, <<"officer", GongoNo(ag_gongo)>>)
    /\ UNCHANGED <<ag_gongo, df_rates, base_price, sucs_rate, A_value>>
    /\ UNCHANGED <<hzVars, boVars, remote, paVars>>

\* lines 466-500: the multi-estimate lookup under the announcement number and
\* the ordinal, base price and theoretical rates
AGEstimates ==
    /\ ag_pc = "estimates"
    /\ \E ok \in Answers :
          LET items1 == remote[GongoNo(ag_gongo)].estimates[GongoOrd(ag_gongo)]
          IN  /\ IF ok /\ items1 # <<>>
                 THEN /\ base_price' = BasePriceOf(items1)
                      /\ df_rates' = TheoreticalRates(items1)
                 ELSE /\ base_price' = FZero(FALSE)
                      /\ df_rates' = <<>>
              /\ outages' = IF ok THEN outages ELSE outages - 1
              /\ ag_log' = Append(ag_log, [lookup |-> "estimates", ok |-> ok])
    /\ calls' = Append(calls, <<"estimates", GongoNo(ag_gongo)>>)
    /\ ag_pc' = "threshold"
    /\ UNCHANGED <<ag_gongo, officer_name, sucs_rate, A_value, ag_ret>>
    /\ UNCHANGED <<hzVars, boVars, remote, paVars>>

\* lines 503-516: the success-rate-threshold lookup; a first item that is no
\* record of fields raises inside the guarded block of lines 511-516 and the
\* threshold stays 0.0
AGThreshold ==
    /\ ag_pc = "threshold"
    /\ \E ok \in Answers :
          LET notice == remote[GongoNo(ag_gongo)].notice
          IN  /\ sucs_rate' = IF ok /\ notice.found /\ notice.record /\ notice.has_sucs
                              THEN FromInt(notice.sucs) ELSE FZero(FALSE)
              /\ outages' = IF ok THEN outages ELSE outages - 1
              /\ ag_log' = Append(ag_log, [lookup |-> "threshold", ok |-> ok])
    /\ calls' = Append(calls, <<"threshold", GongoNo(ag_gongo)>>)
    /\ ag_pc' = "avalue"
    /\ UNCHANGED <<ag_gongo, officer_name, df_rates, base_price, A_value, ag_ret>>
    /\ UNCHANGED <<hzVars, boVars, remote, paVars>>

\* lines 519 and 144-182: get_a_value, the sum of the cost fields or 0.0
AGAValue ==
    /\ ag_pc = "avalue"
    /\ \E ok \in Answers :
          /\ A_value' = IF ok THEN FromInt(remote[GongoNo(ag_gongo)].aval)
                        ELSE FZero(FALSE)
          /\ outages' = IF ok THEN outages ELSE outages - 1
          /\ ag_log' = Append(ag_log, [lookup |-> "avalue", ok |-> ok])
    /\ calls' = Append(calls, <<"avalue", GongoNo(ag_gongo)>>)
    /\ ag_pc' = "bids"
    /\ UNCHANGED <<ag_gongo, officer_name, df_rates, base_price, sucs_rate, ag_ret>>
    /\ UNCHANGED <<hzVars, boVars, remote, paVars>>

\* lines 522-617: the bid-results lookup; its failure returns the error
\* outcome, otherwise the reconstruction runs and the call returns
AGBids ==
    /\ ag_pc = "bids"
    /\ \E ok \in Answers :
          /\ ag_ret' =
                IF ok
                THEN Reconstruct(remote[GongoNo(ag_gongo)].bids, officer_name, df_rates,
                                 base_price, sucs_rate, A_value, GongoNo(ag_gongo))
                ELSE AGErrorOutcome("fetch")
          /\ outages' = IF ok THEN outages ELSE outages - 1
          /\ ag_log' = Append(ag_log, [lookup |-> "bids", ok |-> ok])
          /\ calls' = calls \o (IF ok THEN <<<<"bids", GongoNo(ag_gongo)>>,
                                             <<"reconstruct", ag_gongo>>,
                                             <<"return", ag_gongo>>>>
                                  ELSE <<<<"bids", GongoNo(ag_gongo)>>,
                                         <<"return", ag_gongo>>>>)
    /\ ag_pc' = "returned"
    /\ UNCHANGED <<ag_gongo, officer_name, df_rates, base_price, sucs_rate, A_value>>
    /\ UNCHANGED <<hzVars, boVars, remote, paVars>>

AGNext ==
    \/ AGOfficer
    \/ AGEstimates
    \/ AGThreshold
    \/ AGAValue
    \/ AGBids

(***************************************************************************)
(* analyze_gongo called on one announcement, over a range of service data. *)
(***************************************************************************)
MaxEst == 5

MaxBidders == 2

\* four families of base-price estimates: one base amount and rising plan
\* amounts (self-rates 99.9, 100.0, 100.1, ...); mixed base amounts, with
\* self-rates that do not terminate; identical estimates; and identical
\* estimates of a large amount
EstFamily(k, i) ==
    IF k = 1 THEN [bssamt |-> 1000, bsisPlnprc |-> 998 + i]
    ELSE IF k = 2 THEN [bssamt |-> 1000 * ((i % 3) + 1),
                        bsisPlnprc |-> 1000 * ((i % 3) + 1) + ((i * i) % 7) - 3]
    ELSE IF k = 3 THEN [bssamt |-> 1000, bsisPlnprc |-> 1000]
    ELSE [bssamt |-> 1000000000, bsisPlnprc |-> 1000000000]

\* the lists of estimates: up to MaxEst of the first or the second family, and
\* four identical estimates
EstLists ==
    {[i \in 1..n |-> EstFamily(k, i)] : n \in 0..MaxEst, k \in 1..2}
    \cup {[i \in 1..4 |-> EstFamily(3, i)]}

\* notices: found with a name in the first or the last field, found with a
\* first item that is no record of fields (null), or none; thresholds
\* negative, zero and positive
Notices ==
    {[found |-> TRUE, record |-> TRUE, fields |-> <<"kim", "", "lee">>,
      has_sucs |-> TRUE, sucs |-> -1],
     [found |-> TRUE, record |-> TRUE, fields |-> <<"", "", "lee">>,
      has_sucs |-> TRUE, sucs |-> 0],
     [found |-> TRUE, record |-> TRUE, fields |-> <<"kim", "", "lee">>,
      has_sucs |-> TRUE, sucs |-> 87],
     [found |-> TRUE, record |-> TRUE, fields |-> <<"", "", "lee">>,
      has_sucs |-> TRUE, sucs |-> 87],
     [found |-> TRUE, record |-> FALSE, fields |-> <<"", "", "">>,
      has_sucs |-> FALSE, sucs |-> 0],
     NoData.notice}

\* bid items in the order of a response: not numeric, in the band (two
\* bidders with the same amount), negative
BidPool ==
    <<[prcbdrNm |-> "x", numeric |-> FALSE, bidprcAmt |-> 0],
      [prcbdrNm |-> "a", numeric |-> TRUE, bidprcAmt |-> 870],
      [prcbdrNm |-> "n", numeric |-> TRUE, bidprcAmt |-> -870],
      [prcbdrNm |-> "b", numeric |-> TRUE, bidprcAmt |-> 871],
      [prcbdrNm |-> "c", numeric |-> TRUE, bidprcAmt |-> 870]>>

\* the service data of one announcement: a notice, a list of estimates under
\* the ordinal "00", an A value and a response of up to MaxBidders of the bid
\* items, in their order; and announcements of large amounts, where bids one
\* unit apart have rates less than 10^-5 apart: four estimates of the fourth
\* family under the ordinal "00" and none under "01", a threshold of 87 with
\* bids at and one above 87 percent of the base price, or no threshold
RichData ==
    {[notice |-> nt, estimates |-> [o \in Ords |-> IF o = "00" THEN es ELSE <<>>],
      aval |-> a, bids |-> [i \in Idx(AscSeqOf(S)) |-> BidPool[AscSeqOf(S)[i]]] \o <<>>] :
        nt \in Notices, es \in EstLists, a \in {0, 50},
        S \in {T \in SUBSET Idx(BidPool) : Cardinality(T) <= MaxBidders}}
    \cup
    {[notice |-> [found |-> TRUE, record |-> TRUE, fields |-> <<"kim", "", "">>,
                  has_sucs |-> TRUE, sucs |-> sr],
      estimates |-> [o \in Ords |->
                        IF o = "00" THEN [i \in 1..4 |-> EstFamily(4, i)] ELSE <<>>],
      aval |-> 0, bids |-> bs] :
        sr \in {0, 87},
        bs \in {<<[prcbdrNm |-> "a", numeric |-> TRUE, bidprcAmt |-> 870000000],
                  [prcbdrNm |-> "b", numeric |-> TRUE, bidprcAmt |-> 870000001]>>,
                <<[prcbdrNm |-> "b", numeric |-> TRUE, bidprcAmt |-> 870000001]>>}}

\* the identifier is "g1", or for the large amounts "g1" or "g1-01"
AGInit ==
    /\ \E d \in RichData : remote = [g \in Ids |-> IF g = "g1" THEN d ELSE NoData]
    /\ ag_gongo \in (IF remote["g1"].estimates["00"] = [i \in 1..4 |-> EstFamily(4, i)]
                     THEN {<<"g1">>, <<"g1", "01">>}
                     ELSE {<<"g1">>})
    /\ outages = Len(Lookups)
    /\ ag_pc = "officer"
    /\ officer_name = ""
    /\ df_rates = <<>>
    /\ base_price = FZero(FALSE)
    /\ sucs_rate = FZero(FALSE)
    /\ A_value = FZero(FALSE)
    /\ ag_log = <<>>
    /\ ag_ret = AGNoOutcome
    /\ calls = <<<<"analyze_gongo", ag_gongo>>>>
    /\ HZIdle
    /\ BOIdle
    /\ PAIdle

SpecAG == AGInit /\ [][AGNext]_vars

(***************************************************************************)
(* Claims about analyze_gongo.                                             *)
(***************************************************************************)

\* what the service holds for the identifier in analysis: under its
\* announcement number, and the estimates under its ordinal
Held == remote[GongoNo(ag_gongo)]

HeldEstimates == Held.estimates[GongoOrd(ag_gongo)]

\* n choose 4
Choose4(n) == (n * (n - 1) * (n - 2) * (n - 3)) \div 24

\* the 4-element subsets of the positions 1..n, as ascending tuples
Subsets4(n) ==
    UNION {UNION {UNION {{<<a, b, c, d>> : d \in (c + 1)..n} : c \in (b + 1)..n}
                    : b \in (a + 1)..n} : a \in 1..n}

\* the mean of the self-rates of the estimates at the positions t, as the
\* code computes it
SubsetMean(items, t) ==
    Mean(<<SA_rate(items[t[1]]), SA_rate(items[t[2]]), SA_rate(items[t[3]]),
           SA_rate(items[t[4]])>>)

\* the product of the base amounts at the positions t but the one at skip
\* (skip = 0: of all four), a big number
RECURSIVE BaseProduct(_, _, _)
BaseProduct(items, t, skip) ==
    IF t = <<>> THEN BigOf(1)
    ELSE LET rest == BaseProduct(items, Tail(t), skip)
         IN  IF Head(t) = skip THEN rest
             ELSE BigTrim(BigMul(BigOf(items[Head(t)].bssamt), rest))

\* the exact mean of planAmount / baseAmount * 100 over the positions t is
\* ExactMeanNum / ExactMeanDen
RECURSIVE ExactMeanNumOver(_, _, _)
ExactMeanNumOver(items, t, todo) ==
    IF todo = <<>> THEN <<>>
    ELSE BigTrim(BigAdd(BigMul(BigMul(BigOf(100), BigOf(items[Head(todo)].bsisPlnprc)),
                               BaseProduct(items, t, Head(todo))),
                        ExactMeanNumOver(items, t, Tail(todo))))

ExactMeanNum(items, t) == ExactMeanNumOver(items, t, t)

ExactMeanDen(items, t) == BigTrim(BigMul(BigOf(4), BaseProduct(items, t, 0)))

\* C1: when the multi-estimate lookup yields n estimates, the theoretical rate
\* set has C(n,4) elements for n >= 4 and is empty for n < 4, and it is the
\* set that is returned; when it has been built (the threshold lookup is
\* next) it has one element for each 4-element subset of the estimates, equal
\* to the mean of that subset's self-rates as a double (the exact mean but for
\* rounding; as many elements of a value as there are subsets with that
\* mean).  Four estimates of self-rates 99.9, 100.0, 100.1, 100.2 give the
\* single element 100.05.
C1_TheoreticalRateSet ==
    Succeeded("estimates") =>
        LET items == HeldEstimates
            n == Len(items)
        IN  /\ n < 4 => df_rates = <<>>
            /\ n >= 4 => Len(df_rates) = Choose4(n)
            /\ (n >= 4 /\ ag_pc = "threshold") =>
                  LET means == [t \in Subsets4(n) |-> SubsetMean(items, t)] @@ <<>>
                  IN  \A t \in Subsets4(n) :
                         /\ NearBigFraction(means[t], ExactMeanNum(items, t),
                                            ExactMeanDen(items, t))
                         /\ Cardinality({i \in Idx(df_rates) : df_rates[i] = means[t]})
                               = Cardinality({u \in Subsets4(n) : means[u] = means[t]})
            /\ items = [i \in 1..4 |-> EstFamily(1, i)]
                  => df_rates = <<Dec(10005, 100)>>
            /\ (ag_pc = "returned" /\ ag_ret.err = "") => ag_ret.df_rates = df_rates

\* the lookup returned five or more estimates of differing self-rates and the
\* set holds more than one value
C1_Witness ==
    /\ Succeeded("estimates")
    /\ Len(HeldEstimates) >= 5
    /\ Len(df_rates) >= 5
    /\ \E i, j \in Idx(df_rates) : df_rates[i] # df_rates[j]

\* C2: whenever the threshold is <= 0 or the base price is <= 0, the
\* reconstructed rate of every bidder is 0, whatever the bid amounts and the
\* A value, and the reported winning rate is 0.
C2_ZeroRateSentinel ==
    (ag_pc = "returned" /\ ag_ret.err = ""
        /\ (FLeq(sucs_rate, FZero(FALSE)) \/ FLeq(base_price, FZero(FALSE)))) =>
        /\ \A i \in Idx(ag_ret.bidder_rates) : ag_ret.bidder_rates[i] = FZero(FALSE)
        /\ Len(ag_ret.bidder_rates) = Len(NumericBids(Held.bids))
        /\ ag_ret.info.rate = FZero(FALSE)

\* a return with a positive threshold but no base price, a nonzero A value and
\* two bidders, one with a positive and one with a non-positive amount
C2_Witness ==
    /\ ag_pc = "returned"
    /\ ag_ret.err = ""
    /\ FLess(FZero(FALSE), sucs_rate)
    /\ FLeq(base_price, FZero(FALSE))
    /\ ~FIsZero(A_value)
    /\ Len(ag_ret.bidder_rates) = 2
    /\ \E i, j \in Idx(Held.bids) :
          /\ Held.bids[i].numeric /\ Held.bids[i].bidprcAmt > 0
          /\ Held.bids[j].numeric /\ Held.bids[j].bidprcAmt <= 0

\* C9: a failed officer, multi-estimate, threshold or A-value lookup does not
\* abort: the analysis goes on with the neutral default and the outcome has
\* err = None; only a failed bid-results lookup aborts, with the outcome
\* (empty table, error message, None, empty set, empty list).
C9_OnlyBidLookupAborts ==
    /\ (Failed("officer") /\ ag_pc # "officer") => officer_name = UnknownOfficer
    /\ Failed("estimates") => (df_rates = <<>> /\ base_price = FZero(FALSE))
    /\ Failed("threshold") => sucs_rate = FZero(FALSE)
    /\ Failed("avalue") => A_value = FZero(FALSE)
    /\ ag_pc = "returned" =>
          /\ Failed("bids") => ag_ret = AGErrorOutcome("fetch")
          /\ Succeeded("bids") => (ag_ret.err = "" /\ ag_ret.info_some)
          /\ ag_ret.err # "" => Failed("bids")

\* the rows of the combined table that are bidders (a theoretical row has a
\* sequence number and no name)
RECURSIVE BidderRows(_)
BidderRows(df) ==
    IF df = <<>> THEN <<>>
    ELSE IF Head(df).seq = 0 THEN <<Head(df)>> \o BidderRows(Tail(df))
    ELSE BidderRows(Tail(df))

\* C20: after a normal return, the bidder records of the combined table have
\* pairwise distinct rates: they are one for each distinct reconstructed rate
\* in [90, 110], under the name of the first bidder (in the order of the
\* response) with that rate, and all lie in [90, 110]; the reported winning
\* rate is the rate of the first bidder with a numeric amount rounded to 5
\* decimals, in the band or not; the returned bidder-rate list has the rate
\* of every bidder with a numeric amount, duplicates and out-of-band values
\* included.
C20_BidderRecords ==
    (ag_pc = "returned" /\ ag_ret.err = "" /\ NumericBids(Held.bids) # <<>>) =>
        LET df4 == NumericBids(Held.bids)
            rate(i) == BidRate(df4[i].bidprcAmt, A_value, sucs_rate, base_price)
            inband(v) == FLeq(FromInt(90), v) /\ FLeq(v, FromInt(110))
            firsts == {i \in Idx(df4) : inband(rate(i)) /\ \A j \in 1..(i - 1) : rate(j) # rate(i)}
            rows == BidderRows(ag_ret.df)
        IN  /\ Len(rows) = Cardinality(firsts)
            /\ {<<rows[k].name, rows[k].rate>> : k \in Idx(rows)}
                  = {<<df4[i].prcbdrNm, NpRound(rate(i), 5)>> : i \in firsts}
            /\ \A k \in Idx(rows) : inband(rows[k].rate)
            /\ \A k, l \in Idx(rows) : k # l => rows[k].rate # rows[l].rate
            /\ ag_ret.info.rate = PyRound(rate(1), 5)
            /\ ag_ret.info.winner = df4[1].prcbdrNm
            /\ ag_ret.bidder_rates = [i \in Idx(df4) |-> rate(i)]

(***************************************************************************)
(* process_analysis (src/app.py 623-930) over a list of announcements.     *)
(***************************************************************************)

\* the longest identifier list, and the longest list that repeats one
\* identifier
MaxGongo == 3

MaxRepeat == 4

\* the number of requests that fail during one batch
MaxFail == 1

\* the service data of the batch runs: g1 has five estimates (four under the
\* ordinal "01") and three bidders, two of them with the same amount; g2 has
\* three estimates (none under "01": no theoretical set), an A value and two
\* bidders; g3 has four estimates and no bidder with a numeric amount; the
\* announcement query of g4 answers with an item that is no record of fields
Catalog ==
    [g \in Ids |->
        IF g = "g1" THEN
            [notice |-> [found |-> TRUE, record |-> TRUE, fields |-> <<"kim", "", "">>,
                         has_sucs |-> TRUE, sucs |-> 100],
             estimates |-> [o \in Ords |->
                               [i \in 1..(IF o = "00" THEN 5 ELSE 4) |-> EstFamily(1, i)]],
             aval |-> 0,
             bids |-> <<[prcbdrNm |-> "a", numeric |-> TRUE, bidprcAmt |-> 1001],
                        [prcbdrNm |-> "b", numeric |-> TRUE, bidprcAmt |-> 1002],
                        [prcbdrNm |-> "c", numeric |-> TRUE, bidprcAmt |-> 1001]>>]
        ELSE IF g = "g2" THEN
            [notice |-> [found |-> TRUE, record |-> TRUE, fields |-> <<"", "lee", "">>,
                         has_sucs |-> TRUE, sucs |-> 87],
             estimates |-> [o \in Ords |->
                               [i \in 1..(IF o = "00" THEN 3 ELSE 0) |-> EstFamily(1, i)]],
             aval |-> 50,
             bids |-> <<[prcbdrNm |-> "d", numeric |-> TRUE, bidprcAmt |-> 871],
                        [prcbdrNm |-> "e", numeric |-> TRUE, bidprcAmt |-> 900]>>]
        ELSE IF g = "g3" THEN
            [notice |-> [found |-> TRUE, record |-> TRUE, fields |-> <<"kim", "", "">>,
                         has_sucs |-> TRUE, sucs |-> 87],
             estimates |-> [o \in Ords |-> [i \in 1..4 |-> EstFamily(1, i)]],
             aval |-> 0,
             bids |-> <<[prcbdrNm |-> "x", numeric |-> FALSE, bidprcAmt |-> 0]>>]
        ELSE
            [notice |-> [found |-> TRUE, record |-> FALSE, fields |-> <<"", "", "">>,
                         has_sucs |-> FALSE, sucs |-> 0],
             estimates |-> [o \in Ords |-> [i \in 1..4 |-> EstFamily(1, i)]],
             aval |-> 0,
             bids |-> <<[prcbdrNm |-> "f", numeric |-> TRUE, bidprcAmt |-> 1001]>>]]

\* the identifier texts: one identifier a line, each of the first three
\* announcements once; the first announcement several times; identifiers with
\* an ordinal; lists with the fourth announcement; blank texts; texts of
\* separators only; and a text with a trailing comma
GongoInputs ==
    {[sep |-> "newline", pieces |-> [i \in Idx(l) |-> <<l[i]>>]] :
        l \in {m \in SeqsUpTo(Ids \ {"g4"}, MaxGongo) \ {<<>>} :
                  \A i, j \in Idx(m) : i # j => m[i] # m[j]}}
    \cup {[sep |-> "newline", pieces |-> [i \in 1..n |-> <<"g1">>]] : n \in 1..MaxRepeat}
    \cup {[sep |-> "newline", pieces |-> ps] :
            ps \in {<<<<"g1", "01">>>>,
                    <<<<"g1">>, <<"g1", "01">>>>,
                    <<<<"g2", "01">>, <<"g1", "00">>, <<"g3", "01">>>>,
                    <<<<"g4">>>>,
                    <<<<"g1">>, <<"g4">>, <<"g2">>>>}}
    \cup {[sep |-> sp, pieces |-> ps] :
            sp \in {"newline", "comma"},
            ps \in {<<BlankText>>, <<BlankText, BlankText>>, <<<<"g1">>, BlankText>>}}

\* before the call of process_analysis
Init ==
    /\ remote = Catalog
    /\ outages = MaxFail
    /\ service_key \in {"", "key"}
    /\ target_officer \in {"", "kim", "park"}
    /\ gongo_input \in GongoInputs
    /\ gongo_list = <<>>
    /\ pa_pc = "call"
    /\ pa_idx = 0
    /\ logs = <<>>
    /\ results_for_merge = <<>>
    /\ scatter_data = <<>>
    /\ winner_rates = <<>>
    /\ theoretical_rates_all = <<>>
    /\ bidder_rates_all = <<>>
    /\ merged_df = NoTable
    /\ hot_zone = NoZone
    /\ blue = BONone
    /\ stats = StatsEmpty
    /\ pa_out = ""
    /\ AGIdle
    /\ HZIdle
    /\ BOIdle

\* line 686: analyze_gongo(gongo, api_warnings) is entered for identifier g
EnterAnalyze(g) ==
    /\ ag_gongo' = g
    /\ ag_pc' = "officer"
    /\ officer_name' = ""
    /\ df_rates' = <<>>
    /\ base_price' = FZero(FALSE)
    /\ sucs_rate' = FZero(FALSE)
    /\ A_value' = FZero(FALSE)
    /\ ag_log' = <<>>
    /\ ag_ret' = AGNoOutcome
    /\ calls' = Append(calls, <<"analyze_gongo", g>>)

\* analyze_gongo is left
LeaveAnalyze ==
    /\ ag_gongo' = BlankText
    /\ ag_pc' = "idle"
    /\ officer_name' = ""
    /\ df_rates' = <<>>
    /\ base_price' = FZero(FALSE)
    /\ sucs_rate' = FZero(FALSE)
    /\ A_value' = FZero(FALSE)
    /\ ag_log' = <<>>
    /\ ag_ret' = AGNoOutcome
    /\ UNCHANGED calls

\* lines 623-686: the two batch-level returns, or the list is parsed, the
\* accumulators are set up and the first announcement is taken
PAStart ==
    /\ pa_pc = "call"
    /\ IF IsBlank(gongo_input)
       THEN /\ pa_out' = "blank"
            /\ stats' = StatsEmpty
            /\ pa_pc' = "done"
            /\ UNCHANGED <<pa_idx, gongo_list, agVars>>
       ELSE IF service_key = ""
       THEN /\ pa_out' = "nokey"
            /\ stats' = StatsEmpty
            /\ pa_pc' = "done"
            /\ UNCHANGED <<pa_idx, gongo_list, agVars>>
       ELSE /\ gongo_list' = GongoListOf(gongo_input.pieces)
            /\ IF GongoListOf(gongo_input.pieces) = <<>>
               THEN /\ pa_pc' = "after_loop"
                    /\ UNCHANGED <<pa_idx, agVars>>
               ELSE /\ pa_pc' = "loop"
                    /\ pa_idx' = 1
                    /\ EnterAnalyze(GongoListOf(gongo_input.pieces)[1])
            /\ UNCHANGED <<pa_out, stats>>
    /\ logs' = <<>>
    /\ results_for_merge' = <<>>
    /\ scatter_data' = <<>>
    /\ winner_rates' = <<>>
    /\ theoretical_rates_all' = <<>>
    /\ bidder_rates_all' = <<>>
    /\ UNCHANGED <<service_key, target_officer, gongo_input, merged_df, hot_zone, blue>>
    /\ UNCHANGED <<hzVars, boVars, remote, outages>>

\* lines 686-727: the outcome of analyze_gongo is logged and, unless it is an
\* error or excluded by the officer filter, accumulated; then the next
\* announcement is taken or the loop ends
PALoopBody ==
    /\ pa_pc = "loop"
    /\ ag_pc = "returned"
    /\ LET gongo == gongo_list[pa_idx]
           info == ag_ret.info
           officer == info.officer
           w_rate == info.rate
           take == ag_ret.err = "" /\ PassesFilter(target_officer, officer)
       IN  /\ logs' = Append(logs, LogLine(gongo, ag_ret, target_officer))
           /\ results_for_merge' =
                 IF take /\ ag_ret.df # <<>>
                 THEN Append(results_for_merge,
                             [gongo |-> gongo, df |-> ag_ret.df, info |-> info])
                 ELSE results_for_merge
           /\ winner_rates' =
                 IF take THEN AddWinnerRate(winner_rates, w_rate) ELSE winner_rates
           /\ scatter_data' =
                 IF take /\ ~FIsZero(w_rate)
                 THEN Append(scatter_data, <<w_rate, gongo, info.winner>>)
                 ELSE scatter_data
           /\ theoretical_rates_all' =
                 IF take THEN theoretical_rates_all \o ag_ret.df_rates
                 ELSE theoretical_rates_all
           /\ bidder_rates_all' =
                 IF take THEN bidder_rates_all \o ag_ret.bidder_rates
                 ELSE bidder_rates_all
    /\ IF pa_idx < Len(gongo_list)
       THEN /\ pa_idx' = pa_idx + 1
            /\ EnterAnalyze(gongo_list[pa_idx + 1])
            /\ UNCHANGED pa_pc
       ELSE /\ pa_pc' = "after_loop"
            /\ LeaveAnalyze
            /\ UNCHANGED pa_idx
    /\ UNCHANGED <<service_key, target_officer, gongo_input, gongo_list, merged_df,
                   hot_zone, blue, stats, pa_out>>
    /\ UNCHANGED <<hzVars, boVars, remote, outages>>

\* lines 729-930: the no-data return, or the merged table, the hot zone, the
\* blue-ocean scorer and the statistics; a merge that raises ends the call
\* without a result
PAFinish ==
    /\ pa_pc = "after_loop"
    /\ IF results_for_merge = <<>>
       THEN /\ pa_out' = "nodata"
            /\ logs' = Append(logs, PlainLine("nodata", BlankText, ""))
            /\ stats' = NoDataStats(gongo_list)
            /\ UNCHANGED <<merged_df, hot_zone, blue, calls>>
       ELSE IF MergeColumns(<<>>, results_for_merge).raised
       THEN /\ pa_out' = "raised"
            /\ UNCHANGED <<logs, stats, merged_df, hot_zone, blue, calls>>
       ELSE \E zone \in {HotZoneOf(winner_rates)} :
            \E b \in {BlueOf(zone, theoretical_rates_all, bidder_rates_all)} :
                /\ pa_out' = "ok"
                /\ \E scalar_round \in ScalarRounds :
                       stats' = StatsOf(gongo_list, results_for_merge, b, scalar_round)
                /\ merged_df' = [some |-> TRUE,
                                 columns |-> MergeColumns(<<>>, results_for_merge).labels,
                                 rows |-> MergedTable(results_for_merge)]
                /\ hot_zone' = zone
                /\ blue' = b
                /\ calls' = calls
                       \o (IF winner_rates # <<>> THEN <<<<"find_hot_zone", "">>>> ELSE <<>>)
                       \o (IF BlueCalled(zone, theoretical_rates_all, bidder_rates_all)
                           THEN <<<<"find_blue_ocean_v3", "">>>> ELSE <<>>)
                /\ UNCHANGED logs
    /\ pa_pc' = "done"
    /\ UNCHANGED <<service_key, target_officer, gongo_input, gongo_list, pa_idx,
                   results_for_merge, scatter_data, winner_rates, theoretical_rates_all,
                   bidder_rates_all>>
    /\ UNCHANGED <<hzVars, boVars, remote, outages>>
    /\ UNCHANGED <<ag_gongo, ag_pc, officer_name, df_rates, base_price, sucs_rate, A_value,
                   ag_log, ag_ret>>

Next ==
    \/ PAStart
    \/ AGOfficer
    \/ AGEstimates
    \/ AGThreshold
    \/ AGAValue
    \/ AGBids
    \/ PALoopBody
    \/ PAFinish

Spec == Init /\ [][Next]_vars

(***************************************************************************)
(* Claims about process_analysis.                                          *)
(***************************************************************************)

\* x rounded to 4 decimal places is r: r is the double of k / 10^4 for a
\* whole number k at most half a step from x * 10^4, up to the rounding of a
\* double operation: |k - x * 10^4| <= 1/2 + 2^-30, computed exactly for
\* x = S * 2^e (e < 0) as |k * 2^-e - S * 10^4| * 2^31 <= 2^-e * (2^30 + 2)
IsRounded4(r, x) ==
    \E k \in (FCeil(FMul(x, FromInt(10000))) - 1)..(FCeil(FMul(x, FromInt(10000))) + 1) :
        LET one == BigShl(BigOf(1), -x.exp)
            a == BigMul(BigOf(k), one)
            b == BigMul(Sig(x), BigOf(10000))
            diff == IF BigLess(a, b) THEN BigSub(b, a) ELSE BigSub(a, b)
        IN  /\ k > 0 /\ x.exp < 0 /\ ~x.neg
            /\ r = Dec(k, 10000)
            /\ ~BigLess(BigMul(one, BigOf(2^30 + 2)), BigShl(diff, 31))

\* the texts of x with 3 decimals: of k thousandths for the whole numbers k
\* at most half a thousandth from x, computed exactly for x = S * 2^e (e < 0)
\* as |k * 2^-e - S * 1000| * 2 <= 2^-e
Thousandths(x) ==
    {k \in (FCeil(FMul(x, FromInt(1000))) - 1)..(FCeil(FMul(x, FromInt(1000))) + 1) :
        LET one == BigShl(BigOf(1), -x.exp)
            a == BigMul(BigOf(k), one)
            b == BigMul(Sig(x), BigOf(1000))
            diff == IF BigLess(a, b) THEN BigSub(b, a) ELSE BigSub(a, b)
        IN  /\ k > 0 /\ x.exp < 0 /\ ~x.neg
            /\ ~BigLess(one, BigShl(diff, 1))}

DecimalText3(k) ==
    ToString(k \div 1000) \o "." \o ToString((k \div 100) % 10)
        \o ToString((k \div 10) % 10) \o ToString(k % 10)

\* C7: when the scorer returns a result, the best range is the bin of the
\* largest score among the recorded bins, the lowest such bin when several
\* tie, and stats['rec_rate'] is the upper bound of that bin rounded to 4
\* decimal places (never the midpoint); rec_rate is None exactly when the
\* scorer gave no result.  stats['blue_range'] is then the text for no
\* range, and otherwise the text of the two bounds of the best range with 3
\* decimals, "<lower>% ~ <upper>%".
C7_BestBinAndRecRate ==
    pa_pc = "done" =>
        /\ stats.rec_rate.some <=> blue.df_some
        /\ blue.df_some =>
              /\ blue.range_some /\ blue.center_some
              /\ blue.best_center
                    = FDiv(FAdd(blue.best_range[1], blue.best_range[2]), FromInt(2))
              /\ FLess(blue.best_range[1], blue.best_range[2])
              /\ \E i \in Idx(blue.rows) :
                    /\ FEq(blue.rows[i].center, blue.best_center)
                    /\ \A j \in Idx(blue.rows) :
                          /\ ~FLess(blue.rows[i].score, blue.rows[j].score)
                          /\ FEq(blue.rows[i].score, blue.rows[j].score)
                                => ~FLess(blue.rows[j].center, blue.rows[i].center)
              /\ IsRounded4(stats.rec_rate.v, blue.best_range[2])
              /\ \E lo \in Thousandths(blue.best_range[1]) :
                 \E hi \in Thousandths(blue.best_range[2]) :
                    stats.blue_range
                       = DecimalText3(lo) \o "% ~ " \o DecimalText3(hi) \o "%"
        /\ ~blue.df_some => stats.blue_range = NoRange

\* a finished batch whose scorer recorded bins of different scores, two of
\* them tied for the best, and whose recommended rate is a rounded upper bound
C7_Witness ==
    /\ pa_pc = "done"
    /\ blue.df_some
    /\ \E i, j \in Idx(blue.rows) : FLess(blue.rows[i].score, blue.rows[j].score)
    /\ \E i, j \in Idx(blue.rows) :
          /\ i < j
          /\ FEq(blue.rows[i].center, blue.best_center)
          /\ FEq(blue.rows[i].score, blue.rows[j].score)
    /\ stats.rec_rate.v # blue.best_range[2]
    /\ stats.blue_range # NoRange

\* C10: insufficient data is not an error: when the bid-results lookup
\* succeeds, with bidders or without and with any number of estimates,
\* analyze_gongo returns err = None and an info record (rate 0 without a
\* usable bid amount, an empty theoretical set with fewer than 4 estimates),
\* and process_analysis logs the error marker only for a failed lookup.
C10_InsufficientDataIsNoError ==
    /\ (ag_pc = "returned" /\ Succeeded("bids")) =>
          /\ ag_ret.err = ""
          /\ ag_ret.info_some
          /\ NumericBids(Held.bids) = <<>> => ag_ret.info.rate = FZero(FALSE)
          /\ Len(HeldEstimates) < 4 => ag_ret.df_rates = <<>>
    /\ \A i \in Idx(logs) : logs[i].mark = "error" => logs[i].err = "fetch"

\* the batch reached the loop (neither batch-level return was taken)
ReachedLoop == pa_pc \in {"loop", "after_loop"} \/ pa_out \in {"nodata", "ok", "raised"}

\* the log lines of the identifiers: the first Len(gongo_list) lines
IdLines == SubSeq(logs, 1, IF Len(logs) < Len(gongo_list) THEN Len(logs) ELSE Len(gongo_list))

\* C11: no exception escapes analyze_gongo or process_analysis: every call
\* of analyze_gongo returns its result tuple (a normal outcome with an info
\* record or one of the two error outcomes) and every call of
\* process_analysis returns its result tuple, for all lookup outcomes and all
\* identifier lists, repeated identifiers included.
C11_NoExceptionEscapes ==
    /\ ag_pc = "returned" =>
          \/ ag_ret.err = "" /\ ag_ret.info_some
          \/ ag_ret = AGErrorOutcome("fetch")
          \/ ag_ret = AGErrorOutcome("exception")
    /\ pa_pc = "done" => pa_out \in {"blank", "nokey", "nodata", "ok"}

\* C12: in every result of a batch that reached the loop, total is the
\* number of identifiers, total = filtered + missing, and filtered is the
\* number of announcements analyzed without error that passed the officer
\* filter; an announcement whose bid-results lookup failed has a log line
\* with the error marker and no column in the merged table (the columns are
\* those of the announcements counted in filtered, named by announcement
\* number).
C12_FilteredCounts ==
    (pa_pc = "done" /\ pa_out \in {"nodata", "ok"}) =>
        /\ stats.total = Len(gongo_list)
        /\ stats.total = stats.filtered + stats.missing
        /\ stats.filtered
              = Cardinality({i \in Idx(IdLines) : IdLines[i].mark \in {"ok", "included"}})
        /\ Len(merged_df.columns) = stats.filtered
        /\ \A i \in Idx(IdLines) :
              IdLines[i].mark = "error" =>
                  Cardinality({j \in Idx(merged_df.columns) :
                                  merged_df.columns[j].name[1] = GongoNo(IdLines[i].gongo)})
                    = Cardinality({k \in Idx(IdLines) :
                                      /\ GongoNo(IdLines[k].gongo) = GongoNo(IdLines[i].gongo)
                                      /\ IdLines[k].mark \in {"ok", "included"}})

\* a step of the loop body of process_analysis
LoopStep == pa_pc = "loop" /\ ag_pc = "returned" /\ Len(logs') = Len(logs) + 1

\* C13: when every announcement of the batch failed or was excluded by a
\* non-empty officer filter (as with a filter naming no officer of the
\* batch), process_analysis returns the no-data outcome: no merged table, no
\* hot-zone bounds, filtered = 0, missing = total, blue_range none, rec_rate
\* None, and find_hot_zone and find_blue_ocean_v3 are not called.
C13_NoDataOutcome ==
    (pa_pc = "done" /\ ReachedLoop
        /\ \/ \A i \in Idx(IdLines) : IdLines[i].mark \in {"error", "excluded"}
           \/ target_officer = "park") =>
        /\ pa_out = "nodata"
        /\ merged_df = NoTable
        /\ hot_zone = NoZone
        /\ blue = BONone
        /\ stats.total = Len(gongo_list)
        /\ stats.filtered = 0
        /\ stats.missing = stats.total
        /\ stats.blue_range = NoRange
        /\ ~stats.rec_rate.some
        /\ \A i \in Idx(calls) : calls[i][1] \notin {"find_hot_zone", "find_blue_ocean_v3"}

\* a finished batch of three announcements under a filter that matches none:
\* two are excluded, one fails
C13_Witness ==
    /\ pa_pc = "done"
    /\ target_officer = "park"
    /\ Len(gongo_list) = 3
    /\ \E i, j \in Idx(IdLines) : IdLines[i].mark = "excluded" /\ IdLines[j].mark = "error"
    /\ pa_out = "nodata"

\* the winning rates of the log lines of the announcements taken into the
\* pools (analyzed without error and not excluded), in order; with nonzero
\* set, only the rates other than 0
RECURSIVE TakenRates(_, _)
TakenRates(lines, nonzero) ==
    IF lines = <<>> THEN <<>>
    ELSE IF Head(lines).mark \in {"ok", "included"} /\ (~nonzero \/ ~FIsZero(Head(lines).rate))
         THEN <<Head(lines).rate>> \o TakenRates(Tail(lines), nonzero)
         ELSE TakenRates(Tail(lines), nonzero)

\* the loop of the batch has ended
AfterLoop == pa_pc = "after_loop" \/ (pa_pc = "done" /\ ReachedLoop)

\* the announcement just analyzed is taken into the pools
Taken == ag_ret.err = "" /\ (target_officer = "" \/ ag_ret.info.officer = target_officer)

\* C14 (as stated): after the loop the winner-rate pool has exactly one entry
\* for each announcement analyzed without error that matches the officer
\* filter (or with the filter empty), its winning rate, in input order.
C14_Original ==
    AfterLoop => winner_rates = TakenRates(IdLines, FALSE)

\* C14 (amended): every announcement analyzed without error that matches the
\* officer filter (or with the filter empty) contributes all its theoretical
\* rates to the theoretical pool, its full bidder-rate list to the actual
\* pool, and its winning rate to the winner-rate list unless that rate is 0;
\* after the loop the winner-rate list has exactly one entry for each such
\* announcement with a winning rate other than 0, in input order.
C14_PoolsOfTaken ==
    /\ [][(LoopStep /\ Taken) =>
            /\ theoretical_rates_all' = theoretical_rates_all \o ag_ret.df_rates
            /\ bidder_rates_all' = bidder_rates_all \o ag_ret.bidder_rates
            /\ winner_rates' = IF ~FIsZero(ag_ret.info.rate)
                               THEN Append(winner_rates, ag_ret.info.rate)
                               ELSE winner_rates]_vars
    /\ [](AfterLoop => winner_rates = TakenRates(IdLines, TRUE))

\* after the loop: three announcements were taken, the second with the
\* winning rate 0, and the pool holds the other two rates in input order
C14_Witness ==
    /\ pa_pc = "after_loop"
    /\ Len(IdLines) = 3
    /\ \A i \in Idx(IdLines) : IdLines[i].mark \in {"ok", "included"}
    /\ FIsZero(IdLines[2].rate)
    /\ winner_rates = <<IdLines[1].rate, IdLines[3].rate>>
    /\ IdLines[1].rate # IdLines[3].rate
    /\ theoretical_rates_all # <<>>
    /\ bidder_rates_all # <<>>

\* C15: an announcement that ends in an error outcome, or whose officer
\* differs from a non-empty officer filter, leaves results_for_merge,
\* winner_rates, scatter_data, theoretical_rates_all and bidder_rates_all
\* unchanged and adds exactly one line to the log; every identifier gets
\* exactly one log line, in input order.
C15_SkippedLeaveNoTrace ==
    /\ [][(LoopStep /\ ~Taken) =>
            /\ UNCHANGED <<results_for_merge, winner_rates, scatter_data,
                           theoretical_rates_all, bidder_rates_all>>
            /\ logs' = Append(logs, logs'[Len(logs')])
            /\ logs'[Len(logs')].mark \in {"error", "excluded"}]_vars
    /\ [](pa_pc = "loop" => Len(logs) = pa_idx - 1)
    /\ [](AfterLoop => Len(IdLines) = Len(gongo_list))
    /\ [](ReachedLoop => \A i \in Idx(IdLines) : IdLines[i].gongo = gongo_list[i])
    /\ [](ReachedLoop => Len(logs) <= Len(gongo_list) + 1)

\* after the loop: an announcement was taken, then one was excluded by the
\* filter and one ended in an error, and the pools hold the first one's data
C15_Witness ==
    /\ pa_pc = "after_loop"
    /\ Len(IdLines) = 3
    /\ IdLines[1].mark = "included"
    /\ IdLines[2].mark = "excluded"
    /\ IdLines[3].mark = "error"
    /\ Len(results_for_merge) = 1
    /\ Len(winner_rates) = 1
    /\ Len(scatter_data) = 1
    /\ theoretical_rates_all # <<>>
    /\ bidder_rates_all # <<>>

\* C16: the merged table holds every rate of every combined table that was
\* merged, and each rate in exactly one row, also when a combined table has a
\* rate more than once.
C16_MergeKeepsRatesOnce ==
    (pa_pc = "done" /\ pa_out = "ok") =>
        /\ {merged_df.rows[i].rate : i \in Idx(merged_df.rows)}
              = UNION {{results_for_merge[k].df[j].rate : j \in Idx(results_for_merge[k].df)}
                        : k \in Idx(results_for_merge)}
        /\ \A i, j \in Idx(merged_df.rows) :
              i # j => merged_df.rows[i].rate # merged_df.rows[j].rate

\* C17: when the identifier text is blank (nothing but whitespace) or
\* SERVICE_KEY is empty, process_analysis returns a single message with
\* total = 0, filtered = 0, missing = 0, rec_rate None, and nothing has been
\* looked up: analyze_gongo was not called and no request was made.
C17_BatchLevelReturns ==
    LET blank == /\ \A i \in Idx(gongo_input.pieces) : gongo_input.pieces[i] = BlankText
                 /\ gongo_input.sep = "newline" \/ Len(gongo_input.pieces) = 1
    IN  /\ (blank \/ service_key = "") =>
              /\ calls = <<>>
              /\ ag_pc = "idle"
              /\ pa_pc \in {"call", "done"}
        /\ (pa_pc = "done" /\ (blank \/ service_key = "")) =>
              /\ pa_out = (IF blank THEN "blank" ELSE "nokey")
              /\ logs = <<>>
              /\ stats.total = 0 /\ stats.filtered = 0 /\ stats.missing = 0
              /\ ~stats.rec_rate.some
              /\ stats.blue_range = NoRange
              /\ merged_df = NoTable
              /\ hot_zone = NoZone

\* a returned call for a text of newlines only, with the key set
C17_Witness ==
    /\ pa_pc = "done"
    /\ pa_out = "blank"
    /\ service_key # ""
    /\ Len(gongo_input.pieces) = 2
    /\ gongo_input.sep = "newline"

\* the events of one finished call of analyze_gongo: the five lookups in the
\* fixed order under the announcement number, the reconstruction when the
\* bid results were fetched, and the return
CallsOfOne(gongo, fetched) ==
    <<<<"analyze_gongo", gongo>>>>
      \o [i \in Idx(Lookups) |-> <<Lookups[i], GongoNo(gongo)>>]
      \o (IF fetched THEN <<<<"reconstruct", gongo>>>> ELSE <<>>)
      \o <<<<"return", gongo>>>>

\* the events of the announcements whose log lines are given
RECURSIVE CallsOfLines(_)
CallsOfLines(lines) ==
    IF lines = <<>> THEN <<>>
    ELSE CallsOfOne(Head(lines).gongo, Head(lines).err # "fetch") \o CallsOfLines(Tail(lines))

\* the events of the call of analyze_gongo that is not logged yet
CallsInProgress ==
    IF pa_pc # "loop" THEN <<>>
    ELSE <<<<"analyze_gongo", ag_gongo>>>>
           \o [i \in Idx(ag_log) |-> <<Lookups[i], GongoNo(ag_gongo)>>]
           \o (IF ag_pc = "returned"
               THEN (IF Succeeded("bids") THEN <<<<"reconstruct", ag_gongo>>>> ELSE <<>>)
                      \o <<<<"return", ag_gongo>>>>
               ELSE <<>>)

\* the calls made after the loop
CallsAfterLoop ==
    SubSeq(calls, Len(CallsOfLines(IdLines) \o CallsInProgress) + 1, Len(calls))

\* C19: announcements are analyzed one at a time in input order; within each
\* the lookups are issued in the order officer, multi-estimate, threshold,
\* A value, bid results, all five also when earlier ones fail; the
\* reconstruction and the merge come only after the bid-results lookup has
\* succeeded; no lookup of the next announcement starts before the previous
\* one has returned.
C19_LookupOrder ==
    /\ Len(calls) >= Len(CallsOfLines(IdLines) \o CallsInProgress)
    /\ SubSeq(calls, 1, Len(CallsOfLines(IdLines) \o CallsInProgress))
          = CallsOfLines(IdLines) \o CallsInProgress
    /\ \A i \in Idx(CallsAfterLoop) :
          /\ pa_pc = "done"
          /\ CallsAfterLoop[i][1] \in {"find_hot_zone", "find_blue_ocean_v3"}
    /\ pa_pc = "loop" =>
          /\ ag_gongo = gongo_list[pa_idx]
          /\ Len(logs) = pa_idx - 1
          /\ Len(ag_log) <= Len(Lookups)
          /\ \A i \in Idx(ag_log) : ag_log[i].lookup = Lookups[i]
          /\ (ag_pc = "returned") <=> (Len(ag_log) = Len(Lookups))
          /\ ag_pc = "returned" =>
                (ag_ret.err = "fetch") <=> ~Succeeded("bids")
    /\ ReachedLoop =>
          /\ \A i \in Idx(IdLines) : IdLines[i].gongo = gongo_list[i]
          /\ \A k \in Idx(results_for_merge) :
                \E i \in Idx(IdLines) :
                   /\ IdLines[i].gongo = results_for_merge[k].gongo
                   /\ IdLines[i].err = ""
                   /\ \E j \in Idx(calls) : calls[j] = <<"reconstruct", IdLines[i].gongo>>
    /\ merged_df.some =>
          \A i \in Idx(calls) :
             calls[i][1] = "bids" => i < Len(calls) /\ calls[i + 1][1] \in {"reconstruct", "return"}

=============================================================================
